---- MODULE Spec2Model ----
(***************************************************************************)
(* mcp-rustdoc: the in-memory response cache (src/src/cache.ts), the       *)
(* retry wrapper and the document fetch service (lib.ts, the latest        *)
(* revision of which is src/unnamed/part_007).                             *)
(*                                                                         *)
(* Three specifications share the variables:                               *)
(*   Spec       the cache API driven directly (cacheSet / cacheGet /       *)
(*              cacheIsStale) while the clock advances;                    *)
(*   SpecRetry  one run of fetchWithRetry against an arbitrary operation;  *)
(*   SpecDom    concurrent fetchDom calls and their background refreshes   *)
(*              over the cache and the retry wrapper.                      *)
(***************************************************************************)
EXTENDS Integers, Sequences, FiniteSets, TLC

VARIABLES
    now,      \* Date.now(), in clock ticks of MsPerTick milliseconds
    store,    \* cache.ts `store`: the Map's entries in iteration (insertion) order
    hist,     \* history of each stored key: when it was set, with which ttl, last read
    ret,      \* frame of the latest completed call: of the cache API under Spec,
              \* of fetchDom under SpecDom
    hung,     \* TRUE once a call spins forever in cacheSet's while loop
    streak,   \* number of calls so far when all were cacheSet of distinct keys, else -1
    rt,       \* the frame of the fetchWithRetry call under study
    oplog,    \* what each invocation of its operation settled with, in order
    calls,    \* per caller: the frame of its fetchDom call in progress
    tasks,    \* the background refreshes in flight, oldest first
    issued,   \* number of fetchDom calls made so far
    page,     \* the parsed all.html listing the search tools work on
    out,      \* the latest call of a search or lookup tool and its result
    batch,    \* the batch_lookup call in progress
    pins      \* per cache key: the crate version its entry was fetched for

cacheVars == <<now, store, hist, ret, hung, streak>>

retryVars == <<rt, oplog>>

domVars == <<calls, tasks, issued>>

toolVars == <<page, out, batch, pins>>

vars ==
    <<now, store, hist, ret, hung, streak, rt, oplog, calls, tasks, issued,
      page, out, batch, pins>>

----------------------------------------------------------------------------
\* Bounds of the model.

\* Capacity of the store. cache.ts:5 sets 500; the model keeps the store
\* enumerable with a small capacity, every guard being written against it.
MAX_ENTRIES == 2

\* The clock stops advancing at MaxNow ticks.
MaxNow == 4

----------------------------------------------------------------------------
\* Constants of cache.ts, in clock ticks.

MsPerTick == 5 * 60 * 1000

DEFAULT_TTL == (5 * 60 * 1000) \div MsPerTick

STALE_GRACE == (15 * 60 * 1000) \div MsPerTick

\* JavaScript null, as returned by cacheGet for a missing or expired key.
Null == "<null>"

\* Keys handed to the cache API. The empty string is a legal Map key.
Keys == {"", "k1", "k2"}

\* URLs handed to fetchDom, and the cache key fetchDom forms for a URL.
Urls == {"u1", "u2"}

DomKey(url) == "dom:" \o url

\* URL helpers of lib.ts (src/unnamed/part_007).
DOCS_BASE == "https://docs.rs"

STD_CRATES == {"std", "core", "alloc"}

isStdCrate(name) == name \in STD_CRATES

stdDocsUrl(crate, path) ==
    "https://doc.rust-lang.org/stable/" \o crate \o "/" \o path

\* crateSlug(name): every `-` of the name replaced by `_`.
crateSlug(name) == IF name = "demo-rs" THEN "demo_rs" ELSE name

\* docsUrl(crate, path = 'index.html', version = 'latest')
docsUrl(crate, path, version) ==
    IF isStdCrate(crate) THEN stdDocsUrl(crate, path)
    ELSE DOCS_BASE \o "/" \o crate \o "/" \o version \o "/"
             \o crateSlug(crate) \o "/" \o path

\* The crates and versions documents are fetched for, `latest` being what
\* a tool passes when it is given no version.
Crates == {"demo-rs", "std"}

Versions == {"latest", "1.0.0"}

\* The URLs of the all.html page of these crates under these versions.
DocUrls == {docsUrl(c, "all.html", v) : c \in Crates, v \in Versions}

\* The registry helpers of lib.ts, the crate and version they are called
\* for, the cache key each forms and the URL each requests.
CRATES_IO == "https://crates.io/api/v1"

RegistryHelpers == {"fetchCrateInfo", "fetchCrateVersionInfo", "fetchCrateDeps"}

RegCrate == "demo-rs"

RegVersion == "1.0.0"

registryKey(helper) ==
    IF helper = "fetchCrateInfo" THEN "crate-info:" \o RegCrate
    ELSE IF helper = "fetchCrateVersionInfo"
    THEN "crate-version:" \o RegCrate \o "@" \o RegVersion
    ELSE "crate-deps:" \o RegCrate \o "@" \o RegVersion

registryUrl(helper) ==
    IF helper = "fetchCrateInfo" THEN CRATES_IO \o "/crates/" \o RegCrate
    ELSE IF helper = "fetchCrateVersionInfo"
    THEN CRATES_IO \o "/crates/" \o RegCrate \o "/" \o RegVersion
    ELSE CRATES_IO \o "/crates/" \o RegCrate \o "/" \o RegVersion
             \o "/dependencies"

AllKeys ==
    Keys \cup {DomKey(u) : u \in Urls \cup DocUrls}
         \cup {registryKey(h) : h \in RegistryHelpers}

\* (data, ttl) arguments of cacheSet: one payload with the default ttl, as
\* every caller in the repository passes it, and another payload with a ttl
\* longer than the stale grace.
SetArgs == {<<"a", DEFAULT_TTL>>, <<"b", STALE_GRACE + 1>>}

\* JavaScript truthiness of a string-or-null value: `if (x)`.
Truthy(x) == x # Null /\ x # ""

----------------------------------------------------------------------------
\* The Map<string, CacheEntry>: a sequence of entries in insertion order.

IndexOf(s, key) ==
    IF \E i \in 1..Len(s) : s[i].key = key
    THEN CHOOSE i \in 1..Len(s) : s[i].key = key
    ELSE 0

Has(s, key) == IndexOf(s, key) # 0

RemoveAt(s, i) == SubSeq(s, 1, i - 1) \o SubSeq(s, i + 1, Len(s))

\* Map.prototype.delete
storeDelete(s, key) ==
    IF Has(s, key) THEN RemoveAt(s, IndexOf(s, key)) ELSE s

\* Map.prototype.set: an existing key keeps its place, a new key goes last.
storeSet(s, e) ==
    IF Has(s, e.key) THEN [s EXCEPT ![IndexOf(s, e.key)] = e] ELSE Append(s, e)

StoredKeys(s) == {s[i].key : i \in 1..Len(s)}

----------------------------------------------------------------------------
\* cache.ts

\* cacheGet without the staleExpiry check: an entry is served at any age.
cacheGet_NoExpiry(s, key, t) ==
    LET i == IndexOf(s, key) IN
    IF i = 0 THEN [store |-> s, val |-> Null]
    ELSE [store |-> [s EXCEPT ![i].lastAccess = t], val |-> s[i].data]

\* cacheGet renewing the fresh window of the entry it reads.
cacheGet_SlidingExpiry(s, key, t) ==
    LET i == IndexOf(s, key) IN
    IF i = 0 THEN [store |-> s, val |-> Null]
    ELSE IF t > s[i].staleExpiry
         THEN [store |-> storeDelete(s, key), val |-> Null]
         ELSE [store |-> [s EXCEPT ![i].lastAccess = t,
                                   ![i].expiry = t + DEFAULT_TTL],
               val |-> s[i].data]

\* cacheGet: the store afterwards and the returned value.
cacheGet(s, key, t) ==
    LET i == IndexOf(s, key) IN
    IF i = 0 THEN [store |-> s, val |-> Null]
    ELSE IF t > s[i].staleExpiry
         THEN [store |-> storeDelete(s, key), val |-> Null]
         ELSE [store |-> [s EXCEPT ![i].lastAccess = t], val |-> s[i].data]

\* cacheIsStale comparing against staleExpiry instead of expiry.
cacheIsStale_ByGrace(s, key, t) ==
    LET i == IndexOf(s, key) IN
    IF i = 0 THEN TRUE ELSE t > s[i].staleExpiry

cacheIsStale(s, key, t) ==
    LET i == IndexOf(s, key) IN
    IF i = 0 THEN TRUE ELSE t > s[i].expiry

\* The loop of evictLru with `<=`: the last of the equally old entries wins.
RECURSIVE OldestFrom_LastOfEquals(_, _, _)
OldestFrom_LastOfEquals(s, i, oldest) ==
    IF i > Len(s) THEN oldest
    ELSE IF oldest = 0 \/ s[i].lastAccess <= s[oldest].lastAccess
         THEN OldestFrom_LastOfEquals(s, i + 1, i)
         ELSE OldestFrom_LastOfEquals(s, i + 1, oldest)

\* The for-of loop of evictLru from entry i on: oldest is the index of
\* oldestKey (0 while it is null, oldestAccess then being Infinity).
RECURSIVE OldestFrom(_, _, _)
OldestFrom(s, i, oldest) ==
    IF i > Len(s) THEN oldest
    ELSE IF oldest = 0 \/ s[i].lastAccess < s[oldest].lastAccess
         THEN OldestFrom(s, i + 1, i)
         ELSE OldestFrom(s, i + 1, oldest)

\* evictLru: `if (oldestKey) store.delete(oldestKey)`.
evictLru(s) ==
    LET oldest == OldestFrom(s, 1, 0)
        oldestKey == IF oldest = 0 THEN Null ELSE s[oldest].key
    IN IF Truthy(oldestKey) THEN storeDelete(s, oldestKey) ELSE s

\* The while loop with `>` for `>=`: eviction starts one entry too late.
EvictWhileFull_OffByOne(s, evicted) ==
    IF Len(s) > MAX_ENTRIES
    THEN [store |-> evictLru(s), evicted |-> evicted, spins |-> FALSE]
    ELSE [store |-> s, evicted |-> evicted, spins |-> FALSE]

\* `while (store.size >= MAX_ENTRIES) evictLru()`: the store afterwards, the
\* keys deleted in order, and whether the loop spins (an iteration that
\* deletes nothing leaves the condition true forever).
RECURSIVE EvictWhileFull(_, _)
EvictWhileFull(s, evicted) ==
    IF Len(s) >= MAX_ENTRIES
    THEN LET s2 == evictLru(s) IN
         IF s2 = s THEN [store |-> s, evicted |-> evicted, spins |-> TRUE]
         ELSE EvictWhileFull(s2, Append(evicted,
                  CHOOSE k \in StoredKeys(s) : k \notin StoredKeys(s2)))
    ELSE [store |-> s, evicted |-> evicted, spins |-> FALSE]

cacheSet(s, key, data, ttl, t) ==
    LET w == EvictWhileFull(s, <<>>) IN
    IF w.spins THEN w
    ELSE [store |-> storeSet(w.store, [key |-> key, data |-> data,
                                       expiry |-> t + ttl,
                                       staleExpiry |-> t + STALE_GRACE,
                                       lastAccess |-> t]),
          evicted |-> w.evicted, spins |-> FALSE]

cacheStats(s) == [size |-> Len(s), maxEntries |-> MAX_ENTRIES]

----------------------------------------------------------------------------
\* HTTP helpers of lib.ts (src/unnamed/part_007).

\* Largest `retries` argument explored.
MaxRetriesArg == 3

\* Default arguments of fetchWithRetry.
DefaultRetries == 2

DefaultBaseDelay == 500

BaseDelayArgs == {DefaultBaseDelay, 200}

\* What the network does to one request: it answers with a status (and a
\* body when the status is 200), the AbortController's deadline fires first,
\* or the connection fails.
NetEvents ==
    {[kind |-> "response", status |-> 200, body |-> b] : b \in {"", "a"}}
    \cup {[kind |-> "response", status |-> st, body |-> ""] :
              st \in {404, 500, 503}}
    \cup {[kind |-> "deadline", status |-> 0, body |-> ""],
          [kind |-> "netfail", status |-> 0, body |-> ""]}

\* A settled promise: fulfilled with val, or rejected with err.
Fulfilled(v) == [ok |-> TRUE, val |-> v, err |-> <<>>]

Rejected(name, status) ==
    [ok |-> FALSE, val |-> Null, err |-> <<[name |-> name, status |-> status]>>]

\* Response.ok
ResOk(status) == status >= 200 /\ status <= 299

\* fetchText: an aborted fetch rejects with an AbortError, a failed
\* connection with a TypeError, a response that is not ok throws HttpError.
fetchText(ev) ==
    IF ev.kind = "deadline" THEN Rejected("AbortError", 0)
    ELSE IF ev.kind = "netfail" THEN Rejected("TypeError", 0)
    ELSE IF ~ResOk(ev.status) THEN Rejected("HttpError", ev.status)
    ELSE Fulfilled(ev.body)

\* The test widened to every HTTP error status.
isRetryable_ClientErrorsToo(e) == e.name = "HttpError" /\ e.status >= 400

\* `e instanceof HttpError && e.status >= 500`
isRetryable(e) == e.name = "HttpError" /\ e.status >= 500

\* The frame of a fetchWithRetry call: its arguments, the loop variable i,
\* where it is suspended (pc), how many times fn was invoked, the delays it
\* slept, and how it settled. An error carries the number of the invocation
\* that raised it (`by`, 0 for an error fetchWithRetry creates itself).
NoRetry ==
    [pc |-> "idle", retries |-> 0, baseDelay |-> 0, i |-> 0, calls |-> 0,
     delays |-> <<>>, out |-> <<>>]

Thrown(e, n) ==
    [ok |-> FALSE, val |-> Null,
     err |-> <<[name |-> e.name, status |-> e.status, by |-> n]>>]

\* The loop head with `i < retries`: one invocation fewer.
retryLoop_OneFewer(r) ==
    IF r.i < r.retries
    THEN [r EXCEPT !.pc = "fn", !.calls = r.calls + 1]
    ELSE [r EXCEPT !.pc = "threw",
                   !.out = <<Thrown([name |-> "Error", status |-> 0], 0)>>]

\* The head of the for loop: `i <= retries`, then `await fn()`; after the
\* loop, `throw new Error('unreachable')`.
retryLoop(r) ==
    IF r.i <= r.retries
    THEN [r EXCEPT !.pc = "fn", !.calls = r.calls + 1]
    ELSE [r EXCEPT !.pc = "threw",
                   !.out = <<Thrown([name |-> "Error", status |-> 0], 0)>>]

\* The retry budget taken one too large.
retryStart_ExtraAttempt(retries, baseDelay) ==
    retryLoop([NoRetry EXCEPT !.retries = retries + 1,
                              !.baseDelay = baseDelay])

\* fetchWithRetry(fn, retries, baseDelay) up to its first await.
retryStart(retries, baseDelay) ==
    retryLoop([NoRetry EXCEPT !.retries = retries, !.baseDelay = baseDelay])

\* The catch block giving up with an error of its own once the retries are
\* used up, instead of rethrowing e.
retrySettle_OwnError(r, settled) ==
    IF settled.ok THEN [r EXCEPT !.pc = "returned", !.out = <<settled>>]
    ELSE LET e == settled.err[1] IN
         IF r.i = r.retries
         THEN [r EXCEPT !.pc = "threw",
                  !.out = <<Thrown([name |-> "Error", status |-> 0], 0)>>]
         ELSE IF ~isRetryable(e)
         THEN [r EXCEPT !.pc = "threw", !.out = <<Thrown(e, r.calls)>>]
         ELSE [r EXCEPT !.pc = "delay",
                        !.delays = Append(r.delays, r.baseDelay * (r.i + 1))]

\* The catch block sleeping baseDelay * 2^i: exponential backoff.
retrySettle_Exponential(r, settled) ==
    IF settled.ok THEN [r EXCEPT !.pc = "returned", !.out = <<settled>>]
    ELSE LET e == settled.err[1] IN
         IF r.i = r.retries
         THEN [r EXCEPT !.pc = "threw", !.out = <<Thrown(e, r.calls)>>]
         ELSE IF ~isRetryable(e)
         THEN [r EXCEPT !.pc = "threw", !.out = <<Thrown(e, r.calls)>>]
         ELSE [r EXCEPT !.pc = "delay",
                        !.delays = Append(r.delays, r.baseDelay * (2 ^ r.i))]

\* fn() settles with `settled`: return its value, or run the catch block.
retrySettle(r, settled) ==
    IF settled.ok THEN [r EXCEPT !.pc = "returned", !.out = <<settled>>]
    ELSE LET e == settled.err[1] IN
         IF r.i = r.retries
         THEN [r EXCEPT !.pc = "threw", !.out = <<Thrown(e, r.calls)>>]
         ELSE IF ~isRetryable(e)
         THEN [r EXCEPT !.pc = "threw", !.out = <<Thrown(e, r.calls)>>]
         ELSE [r EXCEPT !.pc = "delay",
                        !.delays = Append(r.delays, r.baseDelay * (r.i + 1))]

\* The setTimeout of the catch block fires: `i++` and back to the loop head.
retryWake(r) == retryLoop([r EXCEPT !.i = r.i + 1])

----------------------------------------------------------------------------
\* DOM helpers of lib.ts (src/unnamed/part_007).

\* Callers of fetchDom (tool handlers running on the one event loop).
Callers == {"h1", "h2"}

\* At most MaxTasks background refreshes are in flight at a time.
MaxTasks == 2

\* At most MaxCalls fetchDom calls are made in a run.
MaxCalls == 3

\* What the network does to a request of fetchDom.
DomNetEvents ==
    {ev \in NetEvents : ev.kind = "response" /\ ev.status \in {200, 404, 500}}

\* cheerio's load(html): the document parsed from html.
load(html) == "$" \o html

\* The frame of a fetchDom call: where it is (pc: "idle", "awaiting" the
\* fetchWithRetry of its miss path, "returned", "threw"), that
\* fetchWithRetry's frame, how the call settled, the number of background
\* refreshes it started, and the lifecycle phase and payload of its cache
\* key when it was made.
NoDomCall ==
    [op |-> "fetchDom", pc |-> "idle", url |-> "", fr |-> NoRetry,
     out |-> <<>>, spawned |-> 0, phase |-> "missing", want |-> Null]

\* fetchDom(url) up to its first await or its return, at time t on store s:
\* the store afterwards, whether it returned from the cache (`hit`), the
\* document it returned, and whether it started a background refresh.
fetchDomSync(s, url, t) ==
    LET cacheKey == DomKey(url)
        g == cacheGet(s, cacheKey, t)
        cached == g.val
    IN IF Truthy(cached)
       THEN [store |-> g.store, hit |-> TRUE, doc |-> load(cached),
             refresh |-> cacheIsStale(g.store, cacheKey, t)]
       ELSE [store |-> g.store, hit |-> FALSE, doc |-> load(""),
             refresh |-> FALSE]

\* The miss path with a failed fetch caught and an empty document returned
\* in its place.
fetchDomResume_SwallowsFailure(s, url, settled, t) ==
    IF settled.ok
    THEN LET w == cacheSet(s, DomKey(url), settled.val, DEFAULT_TTL, t) IN
         [store |-> w.store, spins |-> w.spins,
          out |-> Fulfilled(load(settled.val))]
    ELSE [store |-> s, spins |-> FALSE, out |-> Fulfilled(load(""))]

\* The miss path after `await fetchWithRetry(...)` settled with `settled`:
\* on success cacheSet(cacheKey, html) and return load(html), on failure
\* the rejection goes to the caller.
fetchDomResume(s, url, settled, t) ==
    IF settled.ok
    THEN LET w == cacheSet(s, DomKey(url), settled.val, DEFAULT_TTL, t) IN
         [store |-> w.store, spins |-> w.spins,
          out |-> Fulfilled(load(settled.val))]
    ELSE [store |-> s, spins |-> FALSE, out |-> settled]

\* The background refresh after its fetchWithRetry settled:
\* `.then((html) => cacheSet(cacheKey, html)).catch(() => {})`.
refreshResume(s, url, settled, t) ==
    IF settled.ok
    THEN LET w == cacheSet(s, DomKey(url), settled.val, DEFAULT_TTL, t) IN
         [store |-> w.store, spins |-> w.spins]
    ELSE [store |-> s, spins |-> FALSE]

----------------------------------------------------------------------------
\* Registry helpers of lib.ts (src/unnamed/part_007).

\* What the network does to a request of a registry helper: an answer with
\* a body that is not JSON (""), that is JSON without the expected member
\* ("{}") or that is the expected document ("{data}"), or an error status.
RegNetEvents ==
    {[kind |-> "response", status |-> 200, body |-> b] :
        b \in {"", "{}", "{data}"}}
    \cup {[kind |-> "response", status |-> st, body |-> ""] : st \in {404, 500}}

\* fetchJson: as fetchText, with `res.json()` rejecting a body that is not
\* JSON.
fetchJson(ev) ==
    IF ev.kind = "deadline" THEN Rejected("AbortError", 0)
    ELSE IF ev.kind = "netfail" THEN Rejected("TypeError", 0)
    ELSE IF ~ResOk(ev.status) THEN Rejected("HttpError", ev.status)
    ELSE IF ev.body = "" THEN Rejected("SyntaxError", 0)
    ELSE Fulfilled(ev.body)

\* What a helper makes of the document it fetched: reading a member of the
\* missing `data.crate` or `data.version` throws a TypeError, a missing
\* `data.dependencies` is taken for an empty list.
registryValue(helper, data) ==
    IF helper = "fetchCrateDeps"
    THEN Fulfilled(IF data = "{}" THEN "[]" ELSE "deps" \o data)
    ELSE IF data = "{}" THEN Rejected("TypeError", 0)
    ELSE Fulfilled(helper \o data)

\* A helper up to its first await: `cacheGet(cacheKey)`, `if (cached)`.
registrySync(s, helper, t) ==
    LET g == cacheGet(s, registryKey(helper), t) IN
    [store |-> g.store, hit |-> g.val # Null, val |-> g.val]

\* A helper that stores what it has when its fetch failed.
registryResume_CachesFailure(s, helper, settled, t) ==
    IF ~settled.ok
    THEN [store |-> cacheSet(s, registryKey(helper), "", DEFAULT_TTL, t).store,
          spins |-> FALSE, out |-> settled]
    ELSE IF ~registryValue(helper, settled.val).ok
    THEN [store |-> s, spins |-> FALSE,
          out |-> registryValue(helper, settled.val)]
    ELSE [out |-> registryValue(helper, settled.val)]
         @@ cacheSet(s, registryKey(helper),
                     registryValue(helper, settled.val).val, DEFAULT_TTL, t)

\* A helper after `await fetchWithRetry(...)` settled with `settled`: on
\* failure the rejection goes to the caller; on success the value is built,
\* stored with cacheSet and returned.
registryResume(s, helper, settled, t) ==
    IF ~settled.ok THEN [store |-> s, spins |-> FALSE, out |-> settled]
    ELSE IF ~registryValue(helper, settled.val).ok
    THEN [store |-> s, spins |-> FALSE,
          out |-> registryValue(helper, settled.val)]
    ELSE [out |-> registryValue(helper, settled.val)]
         @@ cacheSet(s, registryKey(helper),
                     registryValue(helper, settled.val).val, DEFAULT_TTL, t)

----------------------------------------------------------------------------
\* Strings. A string is the sequence of its characters.

\* The characters of the model: two letters in both cases and the colon.
Lower == [c \in {"a", "b", "A", "B", ":"} |->
             IF c = "A" THEN "a" ELSE IF c = "B" THEN "b" ELSE c]

\* String.prototype.toLowerCase
toLowerCase(s) == [i \in 1..Len(s) |-> Lower[s[i]]]

\* String.prototype.startsWith
startsWith(s, p) == Len(p) <= Len(s) /\ SubSeq(s, 1, Len(p)) = p

\* The first index at or after `from` where sub occurs in s, 0 when none
\* (String.prototype.indexOf, 1-based).
RECURSIVE indexOfFrom(_, _, _)
indexOfFrom(s, sub, from) ==
    IF from + Len(sub) - 1 > Len(s) THEN 0
    ELSE IF SubSeq(s, from, from + Len(sub) - 1) = sub THEN from
    ELSE indexOfFrom(s, sub, from + 1)

\* String.prototype.includes
includes(s, sub) == indexOfFrom(s, sub, 1) # 0

\* The path separator of rustdoc's item names.
PathSep == <<":", ":">>

\* name.split('::'): the pieces between the occurrences of the separator,
\* found from left to right.
RECURSIVE split(_)
split(s) ==
    LET i == indexOfFrom(s, PathSep, 1) IN
    IF i = 0 THEN <<s>>
    ELSE <<SubSeq(s, 1, i - 1)>> \o split(SubSeq(s, i + 2, Len(s)))

\* parts.join(sep)
RECURSIVE join(_, _)
join(parts, sep) ==
    IF parts = <<>> THEN <<>>
    ELSE IF Len(parts) = 1 THEN parts[1]
    ELSE parts[1] \o sep \o join(Tail(parts), sep)

\* Array.prototype.pop's result: the last element.
pop(parts) == parts[Len(parts)]

\* The collation rank of a character at the primary level: punctuation
\* before letters, a letter and its capital alike.
PrimaryRank == [c \in DOMAIN Lower |->
                   IF c = ":" THEN 0 ELSE IF Lower[c] = "a" THEN 1 ELSE 2]

\* Lexicographic comparison of two strings by a rank of their characters:
\* -1, 0 or 1.
RECURSIVE compareBy(_, _, _)
compareBy(rank, a, b) ==
    IF a = <<>> /\ b = <<>> THEN 0
    ELSE IF a = <<>> THEN -1
    ELSE IF b = <<>> THEN 1
    ELSE IF rank[a[1]] < rank[b[1]] THEN -1
    ELSE IF rank[a[1]] > rank[b[1]] THEN 1
    ELSE compareBy(rank, Tail(a), Tail(b))

\* The rank at the case level: a small letter before its capital.
CaseRank == [c \in DOMAIN Lower |-> IF Lower[c] = c THEN 0 ELSE 1]

\* String.prototype.localeCompare under the default collation: the
\* strings are compared letter by letter without regard to case, and only
\* when that finds no difference, by case.
localeCompare(a, b) ==
    LET p == compareBy(PrimaryRank, a, b) IN
    IF p # 0 THEN p ELSE compareBy(CaseRank, a, b)

\* Math.min, Math.max
Min(a, b) == IF a < b THEN a ELSE b

Max(a, b) == IF a > b THEN a ELSE b

\* Math.ceil(maxLen * 0.4)
CeilTwoFifths(n) == (2 * n + 4) \div 5

\* The table with `1 + Math.min(dp[j], dp[j - 1])`: no substitution.
levenshteinTable_NoSubstitution(a, b) ==
    LET m == Len(a)
        n == Len(b)
        D[i \in 0..m, j \in 0..n] ==
            IF i = 0 THEN j
            ELSE IF j = 0 THEN i
            ELSE IF a[i] = b[j] THEN D[i - 1, j - 1]
            ELSE 1 + Min(D[i - 1, j], D[i, j - 1])
    IN D

\* levenshtein(a, b) of lib.ts: the table of the dynamic program, row i
\* being the array dp after the i-th pass of the outer loop.
levenshteinTable(a, b) ==
    LET m == Len(a)
        n == Len(b)
        D[i \in 0..m, j \in 0..n] ==
            IF i = 0 THEN j
            ELSE IF j = 0 THEN i
            ELSE IF a[i] = b[j] THEN D[i - 1, j - 1]
            ELSE 1 + Min(D[i - 1, j - 1], Min(D[i - 1, j], D[i, j - 1]))
    IN D

levenshtein(a, b) ==
    IF Len(a) = 0 THEN Len(b)
    ELSE IF Len(b) = 0 THEN Len(a)
    ELSE levenshteinTable(a, b)[Len(a), Len(b)]

----------------------------------------------------------------------------
\* Item discovery: searchAllItems of lib.ts (src/unnamed/part_007), the
\* search_crate tool (src/unnamed/part_005) and the module-path
\* auto-discovery of the lookup tools.

\* At most MaxItems items are listed on an all.html page.
MaxItems == 3

\* Queries are all the strings of at most MaxQueryLen characters, and a
\* few longer ones.
MaxQueryLen == 2

\* The cap on shown results. lib.ts:10 sets 100; the model keeps it below
\* MaxItems so that the cut happens.
MAX_SEARCH_RESULTS == 2

\* The cap on fuzzy matches. search_crate keeps 20 (part_005:173); the
\* model keeps it below MaxItems so that the cut happens.
FuzzyCap == 2

\* The score search_crate gives a fuzzy match.
FuzzyScore == 10

\* Item kinds (the values of SECTION_TO_TYPE).
Types == {"struct", "fn"}

\* The items a listing is made of: the kind of the section and the text of
\* the link.
Items ==
    {[type |-> "struct", name |-> <<"A", "b">>],
     [type |-> "fn",     name |-> <<"a", ":", ":", "A", "b">>],
     [type |-> "struct", name |-> <<"b", ":", ":", "A", "b">>],
     [type |-> "struct", name |-> <<"a", ":", ":", "A", "b", "b">>],
     [type |-> "fn",     name |-> <<"b", ":", ":", "b", "A", "b">>]}

\* The all.html pages: the items in document order.
Pages == UNION {[1..n -> Items] : n \in 0..MaxItems}

QueryChars == {"a", "b", ":"}

Queries ==
    UNION {[1..n -> QueryChars] : n \in 0..MaxQueryLen}
    \cup {<<"A", "B">>, <<"a", ":", ":", "a", "b">>, <<"A", "b", "B">>}

\* The bare item name: what follows the last `::`.
bareNameOf(name) == IF includes(name, PathSep) THEN pop(split(name)) ELSE name

\* scoreMatch of search_crate with the prefix tests made before those for
\* equality.
scoreMatch_PrefixBeforeExact(name, query) ==
    LET lower == toLowerCase(name)
        q == toLowerCase(query)
        bareName == bareNameOf(lower)
    IN IF startsWith(bareName, q) THEN 60
       ELSE IF startsWith(lower, q) THEN 55
       ELSE IF bareName = q THEN 100
       ELSE IF lower = q THEN 95
       ELSE IF includes(lower, q) THEN 20
       ELSE 0

\* scoreMatch(name, query) of search_crate.
scoreMatch(name, query) ==
    LET lower == toLowerCase(name)
        q == toLowerCase(query)
        bareName == bareNameOf(lower)
    IN IF bareName = q THEN 100
       ELSE IF lower = q THEN 95
       ELSE IF startsWith(bareName, q) THEN 60
       ELSE IF startsWith(lower, q) THEN 55
       ELSE IF includes(lower, q) THEN 20
       ELSE 0

\* The score searchAllItems gives the link text `name` for the lower-cased
\* query q.
itemScore(name, q) ==
    LET lower == toLowerCase(name)
        bareNameLower == toLowerCase(bareNameOf(name))
    IN IF bareNameLower = q THEN 100
       ELSE IF lower = q THEN 95
       ELSE IF startsWith(bareNameLower, q) THEN 60
       ELSE IF startsWith(lower, q) THEN 55
       ELSE IF includes(lower, q) THEN 20
       ELSE 0

\* The comparator without its tie-break on the name.
hitCompare_NoTieBreak(a, b) == b.score - a.score

\* `b.score - a.score || a.name.localeCompare(b.name)`
hitCompare(a, b) ==
    IF b.score - a.score # 0 THEN b.score - a.score
    ELSE localeCompare(a.name, b.name)

\* `a.dist - b.dist`
distCompare(a, b) == a.dist - b.dist

compare(by, a, b) == IF by = "dist" THEN distCompare(a, b) ELSE hitCompare(a, b)

\* Array.prototype.sort, which is stable: x goes behind every element that
\* does not compare greater than it.
RECURSIVE insertSorted(_, _, _)
insertSorted(by, sorted, x) ==
    IF sorted = <<>> THEN <<x>>
    ELSE IF compare(by, sorted[Len(sorted)], x) <= 0 THEN Append(sorted, x)
    ELSE Append(insertSorted(by, SubSeq(sorted, 1, Len(sorted) - 1), x),
                sorted[Len(sorted)])

RECURSIVE sortFrom(_, _, _, _)
sortFrom(by, arr, i, sorted) ==
    IF i > Len(arr) THEN sorted
    ELSE sortFrom(by, arr, i + 1, insertSorted(by, sorted, arr[i]))

sort(by, arr) == sortFrom(by, arr, 1, <<>>)

\* Array.prototype.slice(0, n)
slice(arr, n) == SubSeq(arr, 1, Min(n, Len(arr)))

\* Array.prototype.filter over records built from the items of a page;
\* each record keeps the place (pos) of its item on the page.
RECURSIVE collect(_, _, _)
collect(recs, i, acc) ==
    IF i > Len(recs) THEN acc
    ELSE collect(recs, i + 1,
                 IF recs[i].keep THEN Append(acc, recs[i].rec) ELSE acc)

\* searchAllItems(crateName, query, version) on the parsed all.html page pg.
searchAllItems(pg, query) ==
    LET q == toLowerCase(query)
        recs == [i \in 1..Len(pg) |->
                   LET name == pg[i].name
                       bareName == bareNameOf(name)
                       score == itemScore(name, q)
                       parts == split(name)
                       modulePath ==
                           IF Len(parts) > 1
                           THEN join(SubSeq(parts, 1, Len(parts) - 1), <<".">>)
                           ELSE <<>>
                   IN [keep |-> score > 0,
                       rec |-> [type |-> pg[i].type, name |-> name,
                                path |-> name, modulePath |-> modulePath,
                                bareName |-> bareName, score |-> score,
                                pos |-> i]]]
    IN sort("hit", collect(recs, 1, <<>>))

\* The fuzzy threshold taken as the floor of 40% of the longer length.
fuzzyAccepts_Floor(dist, maxLen) == dist <= (2 * maxLen) \div 5

\* `dist <= Math.ceil(maxLen * 0.4)`
fuzzyAccepts(dist, maxLen) == dist <= CeilTwoFifths(maxLen)

\* The fuzzy fallback of search_crate: the accepted items, by distance.
fuzzyMatches(pg, query) ==
    LET q == toLowerCase(query)
        recs == [i \in 1..Len(pg) |->
                   LET bareName == toLowerCase(bareNameOf(pg[i].name))
                       dist == levenshtein(bareName, q)
                       maxLen == Max(Len(bareName), Len(q))
                   IN [keep |-> fuzzyAccepts(dist, maxLen),
                       rec |-> [type |-> pg[i].type, name |-> pg[i].name,
                                score |-> FuzzyScore, dist |-> dist,
                                pos |-> i]]]
    IN sort("dist", collect(recs, 1, <<>>))

\* The search_crate handler on the parsed all.html page pg: the hits it
\* shows in order, their number before the cut, and whether and with what
\* the fuzzy fallback ran.
searchCrate(pg, query) ==
    LET recs == [i \in 1..Len(pg) |->
                   LET score == scoreMatch(pg[i].name, query) IN
                   [keep |-> score > 0,
                    rec |-> [type |-> pg[i].type, name |-> pg[i].name,
                             score |-> score, dist |-> 0, pos |-> i]]]
        primary == collect(recs, 1, <<>>)
        fallback == primary = <<>> /\ Len(pg) > 0
        fuzzy == IF fallback THEN fuzzyMatches(pg, query) ELSE <<>>
        hits == primary \o slice(fuzzy, FuzzyCap)
        sorted == sort("hit", hits)
    IN [found |-> hits # <<>>,
        shown |-> slice(sorted, MAX_SEARCH_RESULTS),
        total |-> Len(hits),
        more |-> IF Len(hits) > MAX_SEARCH_RESULTS
                 THEN Len(hits) - MAX_SEARCH_RESULTS ELSE 0,
        fallback |-> fallback,
        accepted |-> fuzzy]

\* The search for a match that takes the first hit of the right name,
\* whatever its kind.
RECURSIVE findExact_IgnoresKind(_, _, _, _)
findExact_IgnoresKind(hits, itemName, itemType, anyType) ==
    IF hits = <<>> THEN <<>>
    ELSE IF toLowerCase(hits[1].bareName) = toLowerCase(itemName)
         THEN <<hits[1]>>
         ELSE findExact_IgnoresKind(Tail(hits), itemName, itemType, anyType)

\* Array.prototype.find: the first element of hits that satisfies the
\* test, <<>> for undefined.
RECURSIVE findExact(_, _, _, _)
findExact(hits, itemName, itemType, anyType) ==
    IF hits = <<>> THEN <<>>
    ELSE IF /\ toLowerCase(hits[1].bareName) = toLowerCase(itemName)
            /\ (anyType \/ hits[1].type = itemType)
         THEN <<hits[1]>>
         ELSE findExact(Tail(hits), itemName, itemType, anyType)

\* The auto-discovery of the lookup tools when no modulePath is given:
\* the hit it settles on and the module path it resolves (<<>> for
\* undefined).
autoDiscover(pg, itemType, itemName) ==
    LET hits == searchAllItems(pg, itemName)
        typed == findExact(hits, itemName, itemType, FALSE)
        match == IF typed # <<>> THEN typed
                 ELSE findExact(hits, itemName, itemType, TRUE)
    IN [hits |-> hits,
        match |-> match,
        resolvedModulePath |->
            IF match # <<>> /\ match[1].modulePath # <<>>
            THEN <<match[1].modulePath>> ELSE <<>>]

----------------------------------------------------------------------------
\* The batch_lookup tool (src/src/tools/batch-lookup.ts).

\* At most MaxBatch items are looked up in a batch (the schema allows 20).
MaxBatch == 3

\* The string of a sequence of characters.
RECURSIVE text(_)
text(s) == IF s = <<>> THEN "" ELSE s[1] \o text(Tail(s))

\* String.prototype.replace(/c/g, by) for a character c.
RECURSIVE replaceAll(_, _, _)
replaceAll(s, c, by) ==
    IF s = <<>> THEN <<>>
    ELSE (IF s[1] = c THEN by ELSE <<s[1]>>) \o replaceAll(Tail(s), c, by)

\* An optional modulePath is <<>> when undefined, else <<the path>>; as
\* a condition it holds when it is defined and not empty.
hasModulePath(modulePath) == modulePath # <<>> /\ modulePath[1] # <<>>

\* modToUrlPrefix(modulePath), modToRustPrefix(modulePath)
modToUrlPrefix(modulePath) ==
    IF hasModulePath(modulePath)
    THEN text(replaceAll(modulePath[1], ".", <<"/">>)) \o "/"
    ELSE ""

modToRustPrefix(modulePath) ==
    IF hasModulePath(modulePath)
    THEN text(replaceAll(modulePath[1], ".", <<":", ":">>)) \o "::"
    ELSE ""

\* `TYPE_FILE_PREFIX[itemType] ?? `${itemType}.``
typeFilePrefix(itemType) == itemType \o "."

\* The crate and version of the batch, and the all.html page the site
\* serves for them.
BatchCrate == "demo-rs"

BatchVersion == "latest"

SitePage ==
    <<[type |-> "fn",     name |-> <<"a", ":", ":", "A", "b">>],
      [type |-> "struct", name |-> <<"b", ":", ":", "A", "b">>]>>

\* The items a batch is made of: one whose module is to be discovered, one
\* that the crate does not have, one given with its module.
BatchItems ==
    {[itemType |-> "struct", itemName |-> <<"A", "b">>, modulePath |-> <<>>],
     [itemType |-> "fn", itemName |-> <<"b", "a">>, modulePath |-> <<>>],
     [itemType |-> "fn", itemName |-> <<"A", "b">>,
      modulePath |-> <<(<<"a">>)>>]}

Batches == UNION {[1..n -> BatchItems] : n \in 1..MaxBatch}

\* The html of a page of the site, and the listing searchAllItems reads
\* off a parsed document.
AllItemsUrl == docsUrl(BatchCrate, "all.html", BatchVersion)

siteBody(url) == IF url = AllItemsUrl THEN "<ul.all-items>" ELSE "<pre>" \o url

listing(doc) == IF doc = load(siteBody(AllItemsUrl)) THEN SitePage ELSE <<>>

\* What the network does to a request of the batch for url: it answers
\* with a status, and with the page when the status is 200.
SiteStatuses == {200, 404, 500}

siteResponse(url, status) ==
    [kind |-> "response", status |-> status,
     body |-> IF status = 200 THEN siteBody(url) ELSE ""]

\* The statuses the successive requests of one fetchWithRetry call may
\* get: every request but the last is answered 500.
RetryScripts ==
    {[k \in 1..n |-> IF k < n THEN 500 ELSE last] :
        n \in 1..(DefaultRetries + 1), last \in SiteStatuses}
    \ {sc \in UNION {[1..n -> {500}] : n \in 1..DefaultRetries} : TRUE}

\* The task of an item: awaiting the fetchDom of searchAllItems ("search")
\* or of the item's page ("page"), or settled ("fulfilled", "rejected")
\* with its value or reason.
NoTask == [pc |-> "new", url |-> "", modulePath |-> <<>>, res |-> <<>>]

\* fetchWithRetry(() => fetchText(url)) run to its end, the network doing
\* evs[1], evs[2], ... to its successive requests: the frame it ends with.
RECURSIVE runRetry(_, _)
runRetry(r, evs) ==
    IF r.pc = "fn" THEN runRetry(retrySettle(r, fetchText(evs[1])), Tail(evs))
    ELSE IF r.pc = "delay" THEN runRetry(retryWake(r), evs)
    ELSE r

\* The url of the item's page (batch-lookup.ts:48-54).
pageUrl(item, resolvedModulePath) ==
    LET prefix == modToUrlPrefix(resolvedModulePath)
        path == IF item.itemType = "mod"
                THEN prefix \o text(item.itemName) \o "/index.html"
                ELSE prefix \o typeFilePrefix(item.itemType)
                            \o text(item.itemName) \o ".html"
    IN docsUrl(BatchCrate, path, BatchVersion)

\* The value an item's task is fulfilled with (batch-lookup.ts:57-65);
\* doc stands for what is extracted from the parsed page.
lookupValue(item, resolvedModulePath, url, doc) ==
    [itemType |-> item.itemType,
     fullName |-> BatchCrate \o "::" \o modToRustPrefix(resolvedModulePath)
                      \o text(item.itemName),
     doc |-> doc, url |-> url]

\* The task from `const url = docsUrl(...)` on: fetchDom(url) returns from
\* the cache, or the task awaits its fetch.
fetchPage(s, item, resolvedModulePath, t) ==
    LET url == pageUrl(item, resolvedModulePath)
        r == fetchDomSync(s, url, t)
    IN [store |-> r.store,
        task |-> IF r.hit
                 THEN [NoTask EXCEPT
                          !.pc = "fulfilled", !.url = url,
                          !.modulePath = resolvedModulePath,
                          !.res = <<Fulfilled(lookupValue(
                                      item, resolvedModulePath, url, r.doc))>>]
                 ELSE [NoTask EXCEPT
                          !.pc = "page", !.url = url,
                          !.modulePath = resolvedModulePath]]

\* The task once searchAllItems has the parsed all.html document.
afterSearch(s, item, doc, t) ==
    fetchPage(s, item,
              autoDiscover(listing(doc), item.itemType,
                           item.itemName).resolvedModulePath, t)

\* The task of an item up to its first await.
startItem(s, item, t) ==
    IF item.modulePath = <<>>
    THEN LET r == fetchDomSync(s, AllItemsUrl, t) IN
         IF r.hit THEN afterSearch(r.store, item, r.doc, t)
         ELSE [store |-> r.store,
               task |-> [NoTask EXCEPT
                            !.pc = "search", !.url = AllItemsUrl]]
    ELSE fetchPage(s, item, item.modulePath, t)

\* Only the first item started at the call.
RECURSIVE dispatch_FirstOnly(_, _, _, _, _)
dispatch_FirstOnly(s, items, i, results, t) ==
    IF i > 1 THEN [store |-> s,
                   tasks |-> results \o [k \in 1..(Len(items) - 1) |-> NoTask]]
    ELSE LET r == startItem(s, items[i], t) IN
         dispatch_FirstOnly(r.store, items, i + 1, Append(results, r.task), t)

\* items.map(async ...): every item's task runs to its first await, in
\* input order.
RECURSIVE dispatch(_, _, _, _, _)
dispatch(s, items, i, results, t) ==
    IF i > Len(items) THEN [store |-> s, tasks |-> results]
    ELSE LET r == startItem(s, items[i], t) IN
         dispatch(r.store, items, i + 1, Append(results, r.task), t)

\* The task of an item resumed when the fetchWithRetry it awaits settled.
resumeItem(s, item, task, settled, t) ==
    LET r == fetchDomResume(s, task.url, settled, t) IN
    IF ~r.out.ok
    THEN [store |-> r.store, spins |-> r.spins,
          task |-> [task EXCEPT !.pc = "rejected", !.res = <<r.out>>]]
    ELSE IF task.pc = "search"
    THEN [spins |-> r.spins] @@ afterSearch(r.store, item, r.out.val, t)
    ELSE [store |-> r.store, spins |-> r.spins,
          task |-> [task EXCEPT
                       !.pc = "fulfilled",
                       !.res = <<Fulfilled(lookupValue(
                                   item, task.modulePath, task.url,
                                   r.out.val))>>]]

\* `r.reason?.message ?? 'unknown error'`
messageOf(reason) == <<reason.name, reason.status>>

\* The section of one item (batch-lookup.ts:70-82).
sectionOf(item, task) ==
    IF task.pc = "fulfilled"
    THEN [status |-> "ok", itemType |-> item.itemType,
          title |-> task.res[1].val.fullName,
          url |-> task.res[1].val.url, doc |-> task.res[1].val.doc,
          message |-> <<>>]
    ELSE [status |-> "error", itemType |-> item.itemType,
          title |-> text(item.itemName), url |-> "", doc |-> "",
          message |-> messageOf(task.res[1].err[1])]

settledTask(task) == task.pc \in {"fulfilled", "rejected"}

\* The response bailing out at the first item that failed.
batchSections_FailFast(items, results) ==
    IF \E i \in 1..Len(results) : results[i].pc = "rejected"
    THEN LET i == CHOOSE i \in 1..Len(results) :
                      /\ results[i].pc = "rejected"
                      /\ \A j \in 1..(i - 1) : results[j].pc # "rejected"
         IN <<sectionOf(items[i], results[i])>>
    ELSE [i \in 1..Len(results) |-> sectionOf(items[i], results[i])]

\* The sections of the response, one per result in input order.
batchSections(items, results) ==
    [i \in 1..Len(results) |-> sectionOf(items[i], results[i])]

\* Promise.allSettled and the assembly that follows it: the response once
\* every task is settled, none (<<>>) before.
batchResponse(items, results) ==
    IF \A i \in 1..Len(results) : settledTask(results[i])
    THEN <<[count |-> Len(items), sections |-> batchSections(items, results)]>>
    ELSE <<>>

----------------------------------------------------------------------------
\* The cache API driven directly.

\* Where a stored key stands in its lifecycle at time t, from its history:
\* "missing" (not stored), "fresh" (set at most ttl ago), "stale" (ttl
\* elapsed, set at most STALE_GRACE ago), "gone" (STALE_GRACE elapsed).
PhaseOf(h, key, t) ==
    IF h[key] = <<>> THEN "missing"
    ELSE LET age == t - h[key][1].born IN
         IF age > STALE_GRACE THEN "gone"
         ELSE IF age > h[key][1].ttl THEN "stale"
         ELSE "fresh"

\* The time of the latest successful cacheGet of a stored key, or of its
\* cacheSet when it was never read since.
LastTouch(h, key) ==
    IF h[key][1].read # -1 THEN h[key][1].read ELSE h[key][1].born

\* The key of the least recently touched entry, the first in iteration order
\* among equals (Null for an empty store).
LruKey(s, h) ==
    IF s = <<>> THEN Null
    ELSE s[CHOOSE i \in 1..Len(s) : \A j \in 1..Len(s) :
               /\ LastTouch(h, s[j].key) >= LastTouch(h, s[i].key)
               /\ j < i => LastTouch(h, s[j].key) > LastTouch(h, s[i].key)].key

\* The stored keys read by cacheGet after every other entry's last touch.
HotKeys(s, h) ==
    {k \in StoredKeys(s) :
        /\ h[k][1].read # -1
        /\ \A j \in StoredKeys(s) \ {k} : LastTouch(h, j) < h[k][1].read}

NoCall == [op |-> "none", key |-> "", phase |-> "missing", want |-> Null,
           val |-> Null, stale |-> FALSE, evicted |-> <<>>, lru |-> Null,
           hot |-> {}]

\* The activation record of a read: the operation, its key, the lifecycle
\* phase of the key and the payload last set for it when the call was made.
Call(op, key) ==
    [NoCall EXCEPT !.op = op, !.key = key, !.phase = PhaseOf(hist, key, now),
                   !.want = IF hist[key] = <<>> THEN Null ELSE hist[key][1].data]

\* The history kept for the keys that are stored, nothing for the others.
HistOf(s, h) == [k \in AllKeys |-> IF Has(s, k) THEN h[k] ELSE <<>>]

\* The history after cacheSet(key, data, ttl) at time t left the store s.
HistAfterSet(s, h, key, data, ttl, t) ==
    HistOf(s, [h EXCEPT ![key] =
                  <<[born |-> t, ttl |-> ttl, data |-> data, read |-> -1]>>])

\* The history after cacheGet(key) at time t left the store s.
HistAfterGet(s, h, key, t) ==
    HistOf(s, IF Has(s, key)
              THEN [h EXCEPT ![key] = <<[h[key][1] EXCEPT !.read = t]>>]
              ELSE h)

\* No fetchDom call was made yet.
NoFetchDom ==
    /\ calls = [c \in Callers |-> NoDomCall]
    /\ tasks = <<>>
    /\ issued = 0

\* No search or lookup tool was called yet.
NoOut == [op |-> "none", query |-> <<>>, type |-> "", res |-> <<>>]

NoTool ==
    /\ page = <<>>
    /\ out = NoOut
    /\ batch = <<>>
    /\ pins = <<>>

EmptyCache ==
    /\ now = 0
    /\ store = <<>>
    /\ hist = [k \in AllKeys |-> <<>>]
    /\ ret = NoCall
    /\ hung = FALSE
    /\ streak = 0

InitCache ==
    /\ EmptyCache
    /\ rt = NoRetry
    /\ oplog = <<>>
    /\ NoFetchDom
    /\ NoTool

Tick ==
    /\ ~hung
    /\ now < MaxNow
    /\ now' = now + 1
    /\ UNCHANGED <<store, hist, ret, hung, streak, retryVars, domVars, toolVars>>

CacheSetCall(key, data, ttl) ==
    /\ ~hung
    /\ LET r == cacheSet(store, key, data, ttl, now) IN
       /\ store' = r.store
       /\ hung' = r.spins
       /\ hist' = IF r.spins THEN hist
                  ELSE HistAfterSet(r.store, hist, key, data, ttl, now)
       /\ ret' = [NoCall EXCEPT !.op = "set", !.key = key, !.val = data,
                                !.evicted = r.evicted,
                                !.lru = LruKey(store, hist),
                                !.hot = HotKeys(store, hist)]
    /\ streak' = IF streak >= 0 /\ ~Has(store, key) THEN streak + 1 ELSE -1
    /\ UNCHANGED <<now, retryVars, domVars, toolVars>>

CacheGetCall(key) ==
    /\ ~hung
    /\ LET r == cacheGet(store, key, now) IN
       /\ store' = r.store
       /\ hist' = HistAfterGet(r.store, hist, key, now)
       /\ ret' = [Call("get", key) EXCEPT !.val = r.val]
    /\ streak' = -1
    /\ UNCHANGED <<now, hung, retryVars, domVars, toolVars>>

CacheIsStaleCall(key) ==
    /\ ~hung
    /\ ret' = [Call("isStale", key) EXCEPT
                  !.stale = cacheIsStale(store, key, now)]
    /\ streak' = -1
    /\ UNCHANGED <<now, store, hist, hung, retryVars, domVars, toolVars>>

NextCache ==
    \/ Tick
    \/ \E key \in Keys, a \in SetArgs : CacheSetCall(key, a[1], a[2])
    \/ \E key \in Keys : CacheGetCall(key)
    \/ \E key \in Keys : CacheIsStaleCall(key)

Spec == InitCache /\ [][NextCache]_vars

----------------------------------------------------------------------------
\* One fetchWithRetry call against an arbitrary operation.

InitRetry ==
    /\ EmptyCache
    /\ rt = NoRetry
    /\ oplog = <<>>
    /\ NoFetchDom
    /\ NoTool

RetryCall(retries, baseDelay) ==
    /\ rt.pc = "idle"
    /\ rt' = retryStart(retries, baseDelay)
    /\ UNCHANGED <<oplog, cacheVars, domVars, toolVars>>

FnSettles(ev) ==
    /\ rt.pc = "fn"
    /\ rt' = retrySettle(rt, fetchText(ev))
    /\ oplog' = Append(oplog, fetchText(ev))
    /\ UNCHANGED <<cacheVars, domVars, toolVars>>

DelayElapses ==
    /\ rt.pc = "delay"
    /\ rt' = retryWake(rt)
    /\ UNCHANGED <<oplog, cacheVars, domVars, toolVars>>

NextRetry ==
    \/ \E retries \in 0..MaxRetriesArg, baseDelay \in BaseDelayArgs :
           RetryCall(retries, baseDelay)
    \/ \E ev \in NetEvents : FnSettles(ev)
    \/ DelayElapses

SpecRetry == InitRetry /\ [][NextRetry]_vars

----------------------------------------------------------------------------
\* Concurrent fetchDom calls and their background refreshes.

InitDom ==
    /\ EmptyCache
    /\ rt = NoRetry
    /\ oplog = <<>>
    /\ NoFetchDom
    /\ NoTool

\* fetchDom(url) called by a caller that is not inside fetchDom: what the
\* call does to the cache and to the frames of fetchDom.
DomCallStep(c, url) ==
    /\ ~hung
    /\ calls[c].pc = "idle"
    /\ Len(tasks) < MaxTasks
    /\ issued < MaxCalls
    /\ issued' = issued + 1
    /\ LET r == fetchDomSync(store, url, now)
           key == DomKey(url)
           fr == retryStart(DefaultRetries, DefaultBaseDelay)
           frame == [NoDomCall EXCEPT
                        !.url = url,
                        !.phase = PhaseOf(hist, key, now),
                        !.want = IF hist[key] = <<>> THEN Null
                                 ELSE hist[key][1].data]
       IN /\ store' = r.store
          /\ hist' = HistAfterGet(r.store, hist, key, now)
          /\ tasks' = IF r.refresh
                      THEN Append(tasks, [url |-> url, fr |-> fr])
                      ELSE tasks
          /\ IF r.hit
             THEN /\ ret' = [frame EXCEPT !.pc = "returned",
                                !.out = <<Fulfilled(r.doc)>>,
                                !.spawned = IF r.refresh THEN 1 ELSE 0]
                  /\ UNCHANGED calls
             ELSE /\ calls' = [calls EXCEPT ![c] =
                                  [frame EXCEPT !.pc = "awaiting", !.fr = fr]]
                  /\ UNCHANGED ret
    /\ UNCHANGED <<now, hung, streak, retryVars>>

\* A caller that is not inside fetchDom calls fetchDom(url).
DomCall(c, url) == DomCallStep(c, url) /\ UNCHANGED toolVars

\* The request of a caller's miss path settles: what that does to the cache
\* and to the frames of fetchDom.
DomFetchSettlesStep(c, ev) ==
    /\ ~hung
    /\ calls[c].pc = "awaiting"
    /\ calls[c].fr.pc = "fn"
    /\ LET fr == retrySettle(calls[c].fr, fetchText(ev)) IN
       IF fr.pc = "delay"
       THEN /\ calls' = [calls EXCEPT ![c].fr = fr]
            /\ UNCHANGED <<store, hist, hung, ret>>
       ELSE LET r == fetchDomResume(store, calls[c].url, fr.out[1], now) IN
            /\ store' = r.store
            /\ hung' = r.spins
            /\ hist' = IF r.out.ok /\ ~r.spins
                       THEN HistAfterSet(r.store, hist, DomKey(calls[c].url),
                                         fr.out[1].val, DEFAULT_TTL, now)
                       ELSE hist
            /\ calls' = [calls EXCEPT ![c] = NoDomCall]
            /\ ret' = [calls[c] EXCEPT !.fr = fr, !.out = <<r.out>>,
                          !.pc = IF r.out.ok THEN "returned" ELSE "threw"]
    /\ UNCHANGED <<now, streak, tasks, issued, retryVars>>

\* The request of a caller's miss path settles.
DomFetchSettles(c, ev) == DomFetchSettlesStep(c, ev) /\ UNCHANGED toolVars

\* The retry delay of a caller's miss path elapses.
DomDelayElapses(c) ==
    /\ ~hung
    /\ calls[c].pc = "awaiting"
    /\ calls[c].fr.pc = "delay"
    /\ calls' = [calls EXCEPT ![c].fr = retryWake(calls[c].fr)]
    /\ UNCHANGED <<cacheVars, tasks, issued, retryVars, toolVars>>

\* The request of background refresh i settles.
RefreshSettles(i, ev) ==
    /\ ~hung
    /\ i \in 1..Len(tasks)
    /\ tasks[i].fr.pc = "fn"
    /\ LET fr == retrySettle(tasks[i].fr, fetchText(ev)) IN
       IF fr.pc = "delay"
       THEN /\ tasks' = [tasks EXCEPT ![i].fr = fr]
            /\ UNCHANGED <<store, hist, hung>>
       ELSE LET r == refreshResume(store, tasks[i].url, fr.out[1], now) IN
            /\ store' = r.store
            /\ hung' = r.spins
            /\ hist' = IF fr.out[1].ok /\ ~r.spins
                       THEN HistAfterSet(r.store, hist, DomKey(tasks[i].url),
                                         fr.out[1].val, DEFAULT_TTL, now)
                       ELSE hist
            /\ tasks' = RemoveAt(tasks, i)
    /\ UNCHANGED <<now, ret, streak, calls, issued, retryVars, toolVars>>

\* The retry delay of background refresh i elapses.
RefreshDelayElapses(i) ==
    /\ ~hung
    /\ i \in 1..Len(tasks)
    /\ tasks[i].fr.pc = "delay"
    /\ tasks' = [tasks EXCEPT ![i].fr = retryWake(tasks[i].fr)]
    /\ UNCHANGED <<cacheVars, calls, issued, retryVars, toolVars>>

NextDom ==
    \/ Tick
    \/ \E c \in Callers, url \in Urls : DomCall(c, url)
    \/ \E c \in Callers, ev \in DomNetEvents : DomFetchSettles(c, ev)
    \/ \E c \in Callers : DomDelayElapses(c)
    \/ \E i \in 1..MaxTasks, ev \in DomNetEvents : RefreshSettles(i, ev)
    \/ \E i \in 1..MaxTasks : RefreshDelayElapses(i)

SpecDom == InitDom /\ [][NextDom]_vars

----------------------------------------------------------------------------
\* fetchDom and the registry helpers called concurrently over one cache.

\* At most MaxRegistryCalls calls, of fetchDom or of a helper, are made in
\* a run.
MaxRegistryCalls == 2

\* A caller that is not inside a call calls a registry helper.
RegistryCall(c, helper) ==
    /\ ~hung
    /\ calls[c].pc = "idle"
    /\ issued < MaxRegistryCalls
    /\ issued' = issued + 1
    /\ \E r \in {registrySync(store, helper, now)},
          frame \in {[NoDomCall EXCEPT
                         !.op = helper,
                         !.url = registryUrl(helper),
                         !.phase = PhaseOf(hist, registryKey(helper), now),
                         !.want = IF hist[registryKey(helper)] = <<>>
                                  THEN Null
                                  ELSE hist[registryKey(helper)][1].data]} :
          /\ store' = r.store
          /\ hist' = HistAfterGet(r.store, hist, registryKey(helper), now)
          /\ IF r.hit
             THEN /\ ret' = [frame EXCEPT !.pc = "returned",
                                          !.out = <<Fulfilled(r.val)>>]
                  /\ UNCHANGED calls
             ELSE /\ calls' = [calls EXCEPT ![c] =
                                  [frame EXCEPT
                                      !.pc = "awaiting",
                                      !.fr = retryStart(DefaultRetries,
                                                        DefaultBaseDelay)]]
                  /\ UNCHANGED ret
    /\ UNCHANGED <<now, hung, streak, tasks, retryVars, toolVars>>

\* The request of a helper's call settles.
RegistryFetchSettles(c, ev) ==
    /\ ~hung
    /\ calls[c].pc = "awaiting"
    /\ calls[c].op \in RegistryHelpers
    /\ calls[c].fr.pc = "fn"
    /\ \E fr \in {retrySettle(calls[c].fr, fetchJson(ev))} :
          IF fr.pc = "delay"
          THEN /\ calls' = [calls EXCEPT ![c].fr = fr]
               /\ UNCHANGED <<store, hist, hung, ret>>
          ELSE \E r \in {registryResume(store, calls[c].op, fr.out[1], now)} :
               /\ store' = r.store
               /\ hung' = r.spins
               /\ hist' = IF r.out.ok /\ ~r.spins
                          THEN HistAfterSet(r.store, hist,
                                            registryKey(calls[c].op),
                                            r.out.val, DEFAULT_TTL, now)
                          ELSE hist
               /\ calls' = [calls EXCEPT ![c] = NoDomCall]
               /\ ret' = [calls[c] EXCEPT
                             !.fr = fr, !.out = <<r.out>>,
                             !.pc = IF r.out.ok THEN "returned" ELSE "threw"]
    /\ UNCHANGED <<now, streak, tasks, issued, retryVars, toolVars>>

\* A caller that is not inside a call calls fetchDom(url).
PageCall(c, url) ==
    /\ issued < MaxRegistryCalls
    /\ DomCall(c, url)

\* The request of a fetchDom call's miss path settles.
PageFetchSettles(c, ev) ==
    /\ calls[c].op = "fetchDom"
    /\ DomFetchSettles(c, ev)

NextRegistry ==
    \/ Tick
    \/ \E c \in Callers, url \in Urls : PageCall(c, url)
    \/ \E c \in Callers, helper \in RegistryHelpers : RegistryCall(c, helper)
    \/ \E c \in Callers, ev \in DomNetEvents : PageFetchSettles(c, ev)
    \/ \E c \in Callers, ev \in RegNetEvents : RegistryFetchSettles(c, ev)
    \/ \E c \in Callers : DomDelayElapses(c)
    \/ \E i \in 1..MaxTasks, ev \in DomNetEvents : RefreshSettles(i, ev)
    \/ \E i \in 1..MaxTasks : RefreshDelayElapses(i)

SpecRegistry == InitDom /\ [][NextRegistry]_vars

----------------------------------------------------------------------------
\* The places of the system that make a network request, one call at a
\* time: what makes the request there, and whether fetchWithRetry runs it.

\* The request made at each place.
SiteRequest ==
    [fetchDom              |-> "fetchText",
     fetchDomRefresh       |-> "fetchText",
     fetchCrateInfo        |-> "fetchJson",
     fetchCrateVersionInfo |-> "fetchJson",
     fetchCrateDeps        |-> "fetchJson",
     search_crates         |-> "fetchJson",
     get_crate_changelog   |-> "fetchJson",
     get_crate_versions    |-> "axios.get"]

Sites == DOMAIN SiteRequest

\* The places where the request is the fn of a fetchWithRetry call; at the
\* others the handler awaits the request itself.
RetriedSites ==
    {"fetchDom", "fetchDomRefresh", "fetchCrateInfo", "fetchCrateVersionInfo",
     "fetchCrateDeps"}

\* axios.get(url, {timeout: 10_000}): its own timeout, and an AxiosError
\* for a timeout, a failed connection and a status that is not 2xx.
axiosGet(ev) ==
    IF ev.kind = "deadline" THEN Rejected("AxiosError", 0)
    ELSE IF ev.kind = "netfail" THEN Rejected("AxiosError", 0)
    ELSE IF ~ResOk(ev.status) THEN Rejected("AxiosError", ev.status)
    ELSE Fulfilled(ev.body)

\* How the request made at a place settles when the network does ev.
siteFetch(site, ev) ==
    IF SiteRequest[site] = "fetchText" THEN fetchText(ev)
    ELSE IF SiteRequest[site] = "fetchJson" THEN fetchJson(ev)
    ELSE axiosGet(ev)

\* The call at a place starts: its first request is issued, inside
\* fetchWithRetry with the default arguments where that is used.
SiteCall(site) ==
    /\ out.op = "none"
    /\ out' = [op |-> site, query |-> <<>>, type |-> "pending", res |-> <<>>]
    /\ rt' = IF site \in RetriedSites
             THEN retryStart(DefaultRetries, DefaultBaseDelay)
             ELSE NoRetry
    /\ UNCHANGED <<oplog, cacheVars, domVars, page, batch, pins>>

\* The request in flight settles: fetchWithRetry takes it from there, or
\* the handler has its result or its error.
SiteRequestSettles(ev) ==
    /\ out.type = "pending"
    /\ out.op \in RetriedSites => rt.pc = "fn"
    /\ oplog' = Append(oplog, siteFetch(out.op, ev))
    /\ \E fr \in {IF out.op \in RetriedSites
                   THEN retrySettle(rt, siteFetch(out.op, ev))
                   ELSE rt} :
          /\ rt' = fr
          /\ out' = IF out.op \notin RetriedSites
                    THEN [out EXCEPT
                            !.type = IF siteFetch(out.op, ev).ok
                                     THEN "returned" ELSE "failed",
                            !.res = <<siteFetch(out.op, ev)>>]
                    ELSE IF fr.pc = "delay" THEN out
                    ELSE [out EXCEPT
                            !.type = IF fr.pc = "returned"
                                     THEN "returned" ELSE "failed",
                            !.res = fr.out]
    /\ UNCHANGED <<cacheVars, domVars, page, batch, pins>>

\* The delay before a retry elapses: the next request is issued.
SiteDelayElapses ==
    /\ out.type = "pending"
    /\ rt.pc = "delay"
    /\ rt' = retryWake(rt)
    /\ UNCHANGED <<oplog, out, cacheVars, domVars, page, batch, pins>>

NextSites ==
    \/ \E site \in Sites : SiteCall(site)
    \/ \E ev \in NetEvents : SiteRequestSettles(ev)
    \/ SiteDelayElapses

SpecSites == InitDom /\ [][NextSites]_vars

----------------------------------------------------------------------------
\* One call of a search or lookup tool on one all.html page: the page and
\* the arguments of the call are drawn at the start.

InitSearch ==
    /\ EmptyCache
    /\ rt = NoRetry
    /\ oplog = <<>>
    /\ NoFetchDom
    /\ page \in Pages
    /\ \E query \in Queries, type \in Types :
           out = [NoOut EXCEPT !.query = query, !.type = type]
    /\ batch = <<>>
    /\ pins = <<>>

\* searchAllItems(crateName, query, version) runs on the page.
SearchAllItemsCall ==
    /\ out.op = "none"
    /\ out' = [out EXCEPT !.op = "searchAllItems", !.type = "",
                          !.res = searchAllItems(page, out.query)]
    /\ UNCHANGED <<page, batch, pins, cacheVars, retryVars, domVars>>

\* The search_crate handler runs on the page.
SearchCrateCall ==
    /\ out.op = "none"
    /\ out' = [out EXCEPT !.op = "search_crate", !.type = "",
                          !.res = searchCrate(page, out.query)]
    /\ UNCHANGED <<page, batch, pins, cacheVars, retryVars, domVars>>

\* A lookup tool called without a modulePath discovers it on the page.
AutoDiscoverCall ==
    /\ out.op = "none"
    /\ out' = [out EXCEPT !.op = "lookup",
                          !.res = autoDiscover(page, out.type, out.query)]
    /\ UNCHANGED <<page, batch, pins, cacheVars, retryVars, domVars>>

NextSearch ==
    \/ SearchAllItemsCall
    \/ SearchCrateCall
    \/ AutoDiscoverCall

SpecSearch == InitSearch /\ [][NextSearch]_vars

----------------------------------------------------------------------------
\* levenshtein called on two strings.

\* The strings it is called on have at most MaxLevLen characters.
MaxLevLen == 4

LevChars == {"a", "b"}

LevStrings == UNION {[1..n -> LevChars] : n \in 0..MaxLevLen}

InitLev ==
    /\ EmptyCache
    /\ rt = NoRetry
    /\ oplog = <<>>
    /\ NoFetchDom
    /\ page = <<>>
    /\ \E a \in LevStrings, b \in LevStrings :
           out = [NoOut EXCEPT !.query = a, !.res = <<b>>]
    /\ batch = <<>>
    /\ pins = <<>>

LevenshteinCall ==
    /\ out.op = "none"
    /\ out' = [op |-> "levenshtein", query |-> out.query, type |-> "",
               res |-> [b |-> out.res[1],
                        dist |-> levenshtein(out.query, out.res[1]),
                        back |-> levenshtein(out.res[1], out.query)]]
    /\ UNCHANGED <<cacheVars, retryVars, domVars, page, batch, pins>>

NextLev == LevenshteinCall

SpecLev == InitLev /\ [][NextLev]_vars

----------------------------------------------------------------------------
\* Document fetches of the tools under crate versions: each tool forms the
\* URL with docsUrl(crateName, page, version ?? 'latest') and hands it to
\* fetchDom.

\* No versioned fetch was made yet: no caller asked for a version, and no
\* cache entry was fetched for one.
NoPins ==
    [asked |-> [c \in Callers |-> ""],
     owner |-> [k \in {DomKey(u) : u \in DocUrls} |-> ""]]

InitVersion ==
    /\ EmptyCache
    /\ rt = NoRetry
    /\ oplog = <<>>
    /\ NoFetchDom
    /\ page = <<>>
    /\ out = NoOut
    /\ batch = <<>>
    /\ pins = NoPins

\* A tool fetches the all.html page of a crate under a version. When the
\* call is served from the cache, `out` records for which version the
\* entry it was served had been fetched.
VersionedFetch(c, crate, version) ==
    LET url == docsUrl(crate, "all.html", version)
        r == fetchDomSync(store, url, now)
    IN /\ DomCallStep(c, url)
       /\ pins' = [pins EXCEPT !.asked[c] = version]
       /\ out' = IF r.hit
                 THEN [op |-> "fetchDom", query |-> crate, type |-> version,
                       res |-> <<pins.owner[DomKey(url)]>>]
                 ELSE out
       /\ UNCHANGED <<page, batch>>

\* The request of a versioned fetch settles; the entry it stores is one
\* fetched for the version the caller asked for.
VersionedFetchSettles(c, ev) ==
    /\ DomFetchSettlesStep(c, ev)
    /\ pins' = IF calls'[c].pc = "idle" /\ ret'.pc = "returned"
               THEN [pins EXCEPT !.owner[DomKey(calls[c].url)] = pins.asked[c]]
               ELSE pins
    /\ UNCHANGED <<page, out, batch>>

NextVersion ==
    \/ \E c \in Callers, crate \in Crates, version \in Versions :
           VersionedFetch(c, crate, version)
    \/ \E c \in Callers, ev \in DomNetEvents : VersionedFetchSettles(c, ev)
    \/ \E c \in Callers : DomDelayElapses(c)

SpecVersion == InitVersion /\ [][NextVersion]_vars

----------------------------------------------------------------------------
\* One batch_lookup call over the cache and the retry wrapper.

NoBatch == [pc |-> "idle", items |-> <<>>, tasks |-> <<>>]

InitBatch ==
    /\ EmptyCache
    /\ rt = NoRetry
    /\ oplog = <<>>
    /\ NoFetchDom
    /\ page = SitePage
    /\ out = NoOut
    /\ batch = NoBatch
    /\ pins = <<>>

\* What follows a step of the tasks: the response when all are settled.
BatchAfter(items, results) ==
    LET resp == batchResponse(items, results) IN
    /\ batch' = [pc |-> IF resp # <<>> THEN "done" ELSE "running",
                 items |-> items, tasks |-> results]
    /\ out' = IF resp # <<>>
              THEN [op |-> "batch_lookup", query |-> <<>>, type |-> "",
                    res |-> resp[1]]
              ELSE out

\* batch_lookup is called with a list of items.
BatchCall(items) ==
    /\ batch.pc = "idle"
    /\ \E d \in {dispatch(store, items, 1, <<>>, now)} :
       /\ store' = d.store
       /\ BatchAfter(items, d.tasks)
    /\ UNCHANGED <<now, hist, ret, hung, streak, page, pins, retryVars,
                   domVars>>

\* The fetchWithRetry the task of item i awaits settles, its requests
\* having got the statuses of script; the task runs on to its next await
\* or to its end.
BatchFetchSettles(i, script) ==
    /\ ~hung
    /\ batch.pc = "running"
    /\ i \in 1..Len(batch.tasks)
    /\ batch.tasks[i].pc \in {"search", "page"}
    /\ LET evs == [k \in 1..Len(script) |->
                      siteResponse(batch.tasks[i].url, script[k])]
           fr == runRetry(retryStart(DefaultRetries, DefaultBaseDelay), evs)
       IN \E r \in {resumeItem(store, batch.items[i], batch.tasks[i],
                                  fr.out[1], now)} :
          /\ store' = r.store
          /\ hung' = r.spins
          /\ BatchAfter(batch.items, [batch.tasks EXCEPT ![i] = r.task])
    /\ UNCHANGED <<now, hist, ret, streak, page, pins, retryVars, domVars>>

NextBatch ==
    \/ \E items \in Batches : BatchCall(items)
    \/ \E i \in 1..MaxBatch, script \in RetryScripts :
           BatchFetchSettles(i, script)

SpecBatch == InitBatch /\ [][NextBatch]_vars

----------------------------------------------------------------------------
\* Properties of fetchWithRetry (checked under SpecRetry).

\* An invocation that failed with an HTTP status of 500 or more.
Failed5xx(o) ==
    ~o.ok /\ o.err[1].name = "HttpError" /\ o.err[1].status >= 500

\* The error fetchWithRetry threw is the one invocation n raised.
ThrewErrorOf(n) ==
    /\ rt.pc = "threw"
    /\ rt.out[1].err[1] = [name |-> oplog[n].err[1].name,
                           status |-> oplog[n].err[1].status, by |-> n]

\* C5: the operation is invoked at most retries + 1 times; while every
\* invocation so far failed with a status >= 500 and at most `retries` were
\* made, the call is still running with no error surfaced; and when the
\* invocation after such failures succeeds, the call returns that success.
BoundedRetryWithSuccess ==
    LET n == Len(oplog) IN
    /\ rt.calls <= rt.retries + 1
    /\ n <= rt.calls
    /\ (rt.pc # "idle" /\ n <= rt.retries
           /\ \A j \in 1..n : Failed5xx(oplog[j]))
          => rt.pc \in {"fn", "delay"} /\ rt.out = <<>>
    /\ (n >= 1 /\ oplog[n].ok /\ \A j \in 1..(n - 1) : Failed5xx(oplog[j]))
          => rt.pc = "returned" /\ rt.out = <<oplog[n]>>

\* The operation failed `retries` times with a 5xx, then succeeded.
SucceededOnLastAttempt ==
    /\ rt.retries = DefaultRetries
    /\ Len(oplog) = DefaultRetries + 1
    /\ rt.pc = "returned"

\* C6: an invocation failing with anything but an HTTP status >= 500 is the
\* last one: no further invocation, no delay after it, and the call throws
\* that very failure. A 404 on the first attempt makes one invocation.
NoRetryOnDefinitiveFailure ==
    \A j \in 1..Len(oplog) :
        (~oplog[j].ok /\ ~Failed5xx(oplog[j])) =>
            /\ j = Len(oplog)
            /\ rt.calls = j
            /\ Len(rt.delays) = j - 1
            /\ ThrewErrorOf(j)

\* A 404 on the first attempt of a call allowed to retry.
NotFoundOnFirstAttempt ==
    /\ rt.retries = DefaultRetries
    /\ oplog = <<Rejected("HttpError", 404)>>
    /\ rt.pc = "threw"
    /\ rt.calls = 1

\* C7: a call that surfaces a timeout (the AbortError of a fetch aborted at
\* its deadline) has used its whole retry budget.
TimeoutIsRetried ==
    (rt.pc = "threw" /\ rt.out[1].err[1].name = "AbortError")
        => rt.calls = rt.retries + 1

\* C8: when all retries + 1 invocations failed with a status >= 500 the call
\* throws the error of the last invocation; and it returns only the success
\* of its last invocation.
RetryExhaustion ==
    LET n == Len(oplog) IN
    /\ (rt.pc # "idle" /\ n = rt.retries + 1
           /\ \A j \in 1..n : Failed5xx(oplog[j]))
          => ThrewErrorOf(n)
    /\ rt.pc = "returned" => n >= 1 /\ oplog[n].ok /\ rt.out = <<oplog[n]>>

\* Every attempt failed, the last with another status than the first.
ExhaustedWithDistinctErrors ==
    /\ rt.retries = DefaultRetries
    /\ Len(oplog) = DefaultRetries + 1
    /\ rt.pc = "threw"
    /\ oplog[1].err[1].status = 500
    /\ oplog[Len(oplog)].err[1].status = 503

\* C24: the wait before the i-th retry is baseDelay * i; a wait follows an
\* invocation that failed with a status >= 500 and precedes the next
\* invocation, so that there is none before the first invocation and none
\* after the last.
LinearBackoff ==
    /\ \A j \in 1..Len(rt.delays) :
           /\ rt.delays[j] = rt.baseDelay * j
           /\ Failed5xx(oplog[j])
    /\ Len(rt.delays) <= rt.retries
    /\ rt.pc = "idle" => rt.delays = <<>>
    /\ rt.pc = "delay" =>
           Len(rt.delays) = rt.calls /\ Len(oplog) = rt.calls
    /\ rt.pc = "fn" =>
           Len(rt.delays) = rt.calls - 1 /\ Len(oplog) = rt.calls - 1
    /\ rt.pc \in {"returned", "threw"} =>
           Len(rt.delays) = rt.calls - 1 /\ Len(oplog) = rt.calls

\* A call with three retries slept baseDelay, 2 * baseDelay, 3 * baseDelay
\* and has settled after its fourth invocation.
ThreeLinearWaits ==
    /\ rt.pc \in {"returned", "threw"}
    /\ rt.calls = 4
    /\ rt.delays = <<rt.baseDelay, 2 * rt.baseDelay, 3 * rt.baseDelay>>

----------------------------------------------------------------------------
\* Properties of fetchDom (checked under SpecDom).

\* A call served from the cache: it returned the parse of the payload its
\* key held, without any network request of its own.
ServedFromCache(f) ==
    /\ f.pc = "returned"
    /\ f.out[1].val = load(f.want)
    /\ f.fr = NoRetry

\* C9: a fetchDom call whose key holds an entry within its fresh window,
\* whatever the payload, returns the parse of that payload, issues no
\* network request and starts no background refresh.
FreshHitServedFromCache ==
    /\ \A c \in Callers : calls[c].pc = "awaiting" => calls[c].phase # "fresh"
    /\ (ret.op = "fetchDom" /\ ret.phase = "fresh")
          => ServedFromCache(ret) /\ ret.spawned = 0

\* The same for the payloads that are not the empty string.
FreshHitOfNonEmptyPayload ==
    /\ \A c \in Callers :
           calls[c].pc = "awaiting" /\ calls[c].phase = "fresh"
               => calls[c].want = ""
    /\ (ret.op = "fetchDom" /\ ret.phase = "fresh" /\ ret.want # "")
          => ServedFromCache(ret) /\ ret.spawned = 0

\* C10: a fetchDom call whose key holds an entry past its ttl and within the
\* stale grace returns the parse of that payload without waiting for the
\* network and starts exactly one background refresh.
StaleHitServedFromCache ==
    /\ \A c \in Callers : calls[c].pc = "awaiting" => calls[c].phase # "stale"
    /\ (ret.op = "fetchDom" /\ ret.phase = "stale")
          => ServedFromCache(ret) /\ ret.spawned = 1

\* The same for the payloads that are not the empty string.
StaleHitOfNonEmptyPayload ==
    /\ \A c \in Callers :
           calls[c].pc = "awaiting" /\ calls[c].phase = "stale"
               => calls[c].want = ""
    /\ (ret.op = "fetchDom" /\ ret.phase = "stale" /\ ret.want # "")
          => ServedFromCache(ret) /\ ret.spawned = 1

\* A background refresh that succeeds stores what it fetched under its key
\* through cacheSet; one that fails changes neither the store nor any
\* caller's frame.
RefreshOutcome ==
    [][\A i \in 1..MaxTasks, ev \in DomNetEvents :
          (RefreshSettles(i, ev) /\ Len(tasks') < Len(tasks)) =>
              IF fetchText(ev).ok
              THEN LET k == DomKey(tasks[i].url) IN
                   /\ Has(store', k)
                   /\ store'[IndexOf(store', k)].data = ev.body
                   /\ hist'[k][1].born = now
              ELSE UNCHANGED <<store, calls, ret>>]_vars

\* A fetchDom call made while its key was absent, or stored more than
\* STALE_GRACE ago.
OnMissPath(f) == f.phase \in {"missing", "gone"}

\* C11: a fetchDom call whose key is absent or past the stale grace goes to
\* the network through fetchWithRetry and waits for it; when the fetch
\* succeeds the fetched content is stored under the key and its parse is
\* returned; when it fails for good, the call throws that very failure
\* and stores nothing.
MissPathFetchesStoresAndPropagates ==
    [][/\ \A c \in Callers, url \in Urls :
            (DomCall(c, url) /\ PhaseOf(hist, DomKey(url), now)
                                   \in {"missing", "gone"})
                => /\ calls'[c].pc = "awaiting"
                   /\ calls'[c].fr.pc = "fn"
                   /\ calls'[c].fr.calls = 1
                   /\ ret' = ret
       /\ \A c \in Callers, ev \in DomNetEvents :
            (DomFetchSettles(c, ev) /\ OnMissPath(calls[c])
                /\ calls'[c].pc = "idle")
                => LET k == DomKey(calls[c].url) IN
                   IF fetchText(ev).ok
                   THEN /\ ~hung'
                        /\ Has(store', k)
                        /\ store'[IndexOf(store', k)].data = ev.body
                        /\ ret'.pc = "returned"
                        /\ ret'.out = <<Fulfilled(load(ev.body))>>
                   ELSE /\ store' = store
                        /\ ret'.pc = "threw"
                        /\ ret'.out[1].err[1].name = fetchText(ev).err[1].name
                        /\ ret'.out[1].err[1].status
                              = fetchText(ev).err[1].status]_vars

\* A call made past the stale grace threw after its last retry failed.
MissPastGraceThrew ==
    /\ ret.op = "fetchDom"
    /\ ret.phase = "gone"
    /\ ret.pc = "threw"
    /\ ret.fr.calls = DefaultRetries + 1

\* C12: a fetchDom call makes at most one network request on the path its
\* caller waits on.
OneRoundTripPerCall ==
    /\ \A c \in Callers : calls[c].fr.calls <= 1
    /\ ret.op = "fetchDom" => ret.fr.calls <= 1

\* C12 as amended: a fetchDom call makes at most DefaultRetries + 1 network
\* requests on the path its caller waits on, each but the first after a
\* back-off delay, and none when it is served from the cache.
BoundedRoundTripsPerCall ==
    /\ \A c \in Callers :
           /\ calls[c].fr.calls <= DefaultRetries + 1
           /\ calls[c].pc = "awaiting"
                 => calls[c].fr.calls \in {Len(calls[c].fr.delays),
                                           Len(calls[c].fr.delays) + 1}
    /\ ret.op = "fetchDom" =>
           /\ ret.fr.calls <= DefaultRetries + 1
           /\ OnMissPath(ret) => ret.fr.calls = Len(ret.fr.delays) + 1
           /\ (ret.phase \in {"fresh", "stale"} /\ ret.want # "")
                 => ret.fr.calls = 0

\* A call returned after DefaultRetries + 1 requests.
ReturnedAfterAllRetries ==
    /\ ret.op = "fetchDom"
    /\ ret.pc = "returned"
    /\ ret.fr.calls = DefaultRetries + 1

\* C13: the content a fetchDom call returns from the cache is the payload
\* of a cacheSet made at most STALE_GRACE before the call.
StalenessBound ==
    (ret.op = "fetchDom" /\ ret.pc = "returned" /\ ret.fr = NoRetry)
        => /\ ret.phase \in {"fresh", "stale"}
           /\ ret.out = <<Fulfilled(load(ret.want))>>

\* A call was just served a payload stored exactly STALE_GRACE earlier.
ServedAtEndOfGrace ==
    /\ ret.op = "fetchDom"
    /\ ret.pc = "returned"
    /\ ret.fr = NoRetry
    /\ ret.phase = "stale"
    /\ hist[DomKey(ret.url)] # <<>>
    /\ hist[DomKey(ret.url)][1].read = now
    /\ now - hist[DomKey(ret.url)][1].born = STALE_GRACE

\* C22: at any time at most one background refresh per cache key is in
\* flight: a stale hit on a key that is being refreshed starts no second
\* refresh.
OneRefreshPerKey ==
    \A i, j \in 1..Len(tasks) :
        DomKey(tasks[i].url) = DomKey(tasks[j].url) => i = j

\* C30: the fetchDom calls that are waiting on the miss path for one URL
\* have issued at most one network request for it between them.
OneRequestPerColdUrl ==
    \A c1, c2 \in Callers :
        (/\ calls[c1].pc = "awaiting" /\ calls[c2].pc = "awaiting"
         /\ calls[c1].fr.calls >= 1 /\ calls[c2].fr.calls >= 1
         /\ calls[c1].url = calls[c2].url)
            => c1 = c2

----------------------------------------------------------------------------
\* Properties of fetchDom and the registry helpers (checked under
\* SpecRegistry).

\* The cache key of the call with frame f.
KeyOfCall(f) == IF f.op = "fetchDom" THEN DomKey(f.url) ELSE registryKey(f.op)

\* C29: when the fetch a fetchDom or registry helper call waits for fails,
\* the call throws and the store is left as it is: no entry is created,
\* replaced or removed; and a call for a key that has no entry goes to the
\* network.
NoCachingOfFailures ==
    [][/\ \A c \in Callers :
            (/\ calls[c].pc = "awaiting" /\ calls'[c].pc = "idle"
             /\ ret'.pc = "threw")
               => store' = store /\ hist' = hist
       /\ \A c \in Callers :
            (/\ issued' = issued + 1 /\ calls'[c] # calls[c]
             /\ ~Has(store, KeyOfCall(calls'[c])))
               => /\ calls'[c].pc = "awaiting"
                  /\ calls'[c].fr.pc = "fn"
                  /\ calls'[c].fr.calls = 1
       /\ (issued' = issued + 1 /\ calls' = calls)
               => Has(store, KeyOfCall(ret'))]_vars

\* A helper's call threw after its last retry failed, and left the entry
\* of another key in the store and none under its own key.
HelperThrewAfterRetries ==
    /\ issued = 2
    /\ ret.op \in RegistryHelpers
    /\ ret.pc = "threw"
    /\ ret.fr.calls = DefaultRetries + 1
    /\ Len(store) = 1
    /\ ~Has(store, KeyOfCall(ret))

----------------------------------------------------------------------------
\* Properties of the network call sites (checked under SpecSites).

\* A request that was answered with a status >= 500.
ServerError(o) == ~o.ok /\ o.err[1].status >= 500

\* C21: wherever a request is made it is run by fetchWithRetry: as long as
\* every request of a call was answered with a status >= 500 and at most
\* DefaultRetries requests were made, the call goes on to another request,
\* so that a call fails on such an answer only after DefaultRetries + 1
\* requests.
EveryRequestRetried ==
    /\ (/\ out.op # "none" /\ Len(oplog) <= DefaultRetries
        /\ \A j \in 1..Len(oplog) : ServerError(oplog[j]))
           => out.type = "pending"
    /\ (out.type = "failed" /\ ServerError(oplog[Len(oplog)]))
           => Len(oplog) = DefaultRetries + 1

\* The same of the places where fetchWithRetry is used.
RetriedWhereWrapped ==
    out.op \in RetriedSites =>
        /\ (/\ Len(oplog) <= DefaultRetries
            /\ \A j \in 1..Len(oplog) : ServerError(oplog[j]))
               => out.type = "pending"
        /\ (out.type = "failed" /\ ServerError(oplog[Len(oplog)]))
               => Len(oplog) = DefaultRetries + 1

----------------------------------------------------------------------------
\* Properties of the search and lookup tools (checked under SpecSearch).

\* p is a prefix of s; p occurs in s.
IsPrefix(p, s) == \E k \in 0..Len(s) : SubSeq(s, 1, k) = p

IsSubstring(p, s) ==
    \E i \in 1..(Len(s) + 1) : \E j \in (i - 1)..Len(s) : SubSeq(s, i, j) = p

\* The last segment of a qualified name: the part behind its last `::`,
\* the whole name when it has none.
LastSegment(name) ==
    LET starts == {k \in 0..Len(name) :
                      /\ k = 0 \/ (k >= 2 /\ SubSeq(name, k - 1, k) = PathSep)
                      /\ ~IsSubstring(PathSep, SubSeq(name, k + 1, Len(name)))}
    IN SubSeq(name, (CHOOSE k \in starts : TRUE) + 1, Len(name))

\* The score of the first tier that applies to an item name and a query,
\* both taken in lower case.
TierScore(name, query) ==
    LET full == toLowerCase(name)
        bare == toLowerCase(LastSegment(name))
        q == toLowerCase(query)
    IN CASE bare = q -> 100
         [] bare # q /\ full = q -> 95
         [] bare # q /\ full # q /\ IsPrefix(q, bare) -> 60
         [] full # q /\ ~IsPrefix(q, bare) /\ IsPrefix(q, full) -> 55
         [] ~IsPrefix(q, full) /\ ~IsPrefix(q, bare) /\ IsSubstring(q, full) -> 20
         [] OTHER -> 0

\* The places on the page of the items a query scores above 0.
Scoring(query) == {i \in 1..Len(page) : TierScore(page[i].name, query) > 0}

\* The primary hits of a result list are the items scoring above 0, each
\* once, with the score of its tier.
PrimaryHitsOf(hits, query) ==
    /\ \A k \in 1..Len(hits) :
          /\ hits[k].pos \in Scoring(query)
          /\ hits[k].name = page[hits[k].pos].name
          /\ hits[k].score = TierScore(hits[k].name, query)
    /\ \A k, l \in 1..Len(hits) : hits[k].pos = hits[l].pos => k = l

\* Exact matches come before prefix matches, and these before the matches
\* of a mere substring.
TiersInOrder(hits) ==
    \A k, l \in 1..Len(hits) :
        (hits[k].score >= 95 /\ hits[l].score \in {55, 60, 20})
            \/ (hits[k].score \in {55, 60} /\ hits[l].score = 20)
        => k < l

\* C14: searchAllItems and search_crate give every item the score of the
\* first tier that applies, without regard to case (100, 95, 60, 55, 20,
\* else 0), leave out of the primary results exactly the items scoring 0,
\* and rank exact matches above prefix matches above substring matches.
ScoringTiers ==
    /\ out.op = "searchAllItems" =>
          /\ PrimaryHitsOf(out.res, out.query)
          /\ {out.res[k].pos : k \in 1..Len(out.res)} = Scoring(out.query)
          /\ TiersInOrder(out.res)
    /\ (out.op = "search_crate" /\ ~out.res.fallback) =>
          /\ PrimaryHitsOf(out.res.shown, out.query)
          /\ out.res.total = Cardinality(Scoring(out.query))
          /\ TiersInOrder(out.res.shown)
    /\ (out.op = "search_crate" /\ Scoring(out.query) # {})
          => ~out.res.fallback

\* A query in capitals got an exact, a prefix and a substring match.
ThreeTiersRanked ==
    /\ out.op = "searchAllItems"
    /\ out.query # toLowerCase(out.query)
    /\ Len(out.res) = 3
    /\ out.res[1].score = 100
    /\ out.res[2].score = 60
    /\ out.res[3].score = 20

\* The order of the results: score descending, then name ascending in the
\* collation of localeCompare, then place on the page.
InResultOrder(hits) ==
    \A k \in 1..(Len(hits) - 1) :
        LET a == hits[k]
            b == hits[k + 1]
        IN \/ a.score > b.score
           \/ a.score = b.score /\ localeCompare(a.name, b.name) < 0
           \/ a.score = b.score /\ a.name = b.name /\ a.pos < b.pos

FuzzyDist(i, query) ==
    levenshtein(toLowerCase(query), toLowerCase(LastSegment(page[i].name)))

FuzzyAccepted(query) ==
    {i \in 1..Len(page) :
        LET maxLen == Max(Len(query), Len(LastSegment(page[i].name))) IN
        5 * (FuzzyDist(i, query) - 1) < 2 * maxLen}

\* C16: search_crate shows fuzzy matches if and only if no item scores
\* above 0 and some item is accepted; it then shows accepted items only,
\* FuzzyCap of them or all when there are fewer, and no accepted item left
\* out is closer to the query than one shown.
FuzzyFallback ==
    out.op = "search_crate" =>
        LET shown == {out.res.shown[k].pos : k \in 1..Len(out.res.shown)}
            fuzzy == {k \in 1..Len(out.res.shown) :
                         out.res.shown[k].score = FuzzyScore}
        IN /\ fuzzy # {} <=>
                 (Scoring(out.query) = {} /\ FuzzyAccepted(out.query) # {})
           /\ Scoring(out.query) = {} =>
                 /\ shown \subseteq FuzzyAccepted(out.query)
                 /\ Cardinality(shown)
                       = Min(FuzzyCap, Cardinality(FuzzyAccepted(out.query)))
                 /\ out.res.total = Cardinality(shown)
                 /\ \A i \in shown, j \in FuzzyAccepted(out.query) \ shown :
                        FuzzyDist(i, out.query) <= FuzzyDist(j, out.query)
                 /\ \A k \in 1..Len(out.res.shown) :
                        out.res.shown[k].name = page[out.res.shown[k].pos].name

\* The fallback accepted more items than it keeps, and left out one that
\* is farther from the query than one it kept.
FuzzyCutAtCap ==
    /\ out.op = "search_crate"
    /\ out.res.fallback
    /\ Len(out.res.accepted) > FuzzyCap
    /\ out.res.accepted[1].dist = 1
    /\ out.res.accepted[Len(out.res.accepted)].dist = 2
    /\ Len(out.res.shown) = FuzzyCap

\* C17: the empty query matches nothing: searchAllItems returns no hit and
\* search_crate finds no match.
EmptyQueryMatchesNothing ==
    out.query = <<>> =>
        /\ out.op = "searchAllItems" => out.res = <<>>
        /\ out.op = "search_crate" => ~out.res.found
        /\ out.op = "lookup" => out.res.hits = <<>>

\* The module path a lookup resolves when it settles on the hit h.
ModulePathOf(h) == IF h.modulePath = <<>> THEN <<>> ELSE <<h.modulePath>>

\* C18: a lookup given no modulePath resolves the module path of a scored
\* hit of the requested kind when there is one, else that of the
\* top-scoring hit, and none only when nothing scored.
AutoDiscoveryAmongScoredHits ==
    out.op = "lookup" =>
        LET hits == out.res.hits
            typed == {k \in 1..Len(hits) : hits[k].type = out.type}
        IN IF typed # {}
           THEN \E k \in typed :
                    /\ out.res.match = <<hits[k]>>
                    /\ out.res.resolvedModulePath = ModulePathOf(hits[k])
           ELSE IF hits # <<>>
           THEN /\ out.res.match = <<hits[1]>>
                /\ out.res.resolvedModulePath = ModulePathOf(hits[1])
           ELSE out.res.match = <<>> /\ out.res.resolvedModulePath = <<>>

\* C18 as amended: a lookup given no modulePath considers only the scored
\* hits whose bare name is the item name, compared without regard to case;
\* it resolves the module path of the first of them that has the requested
\* kind, else of the first of them, which is the top-scoring hit, and none
\* when no hit has that bare name.
AutoDiscoveryAmongExactHits ==
    out.op = "lookup" =>
        LET hits == out.res.hits
            exact == {k \in 1..Len(hits) :
                         toLowerCase(LastSegment(hits[k].name))
                             = toLowerCase(out.query)}
            typed == {k \in exact : hits[k].type = out.type}
            First(S) == CHOOSE k \in S : \A l \in S : k <= l
        IN IF typed # {}
           THEN /\ out.res.match = <<hits[First(typed)]>>
                /\ out.res.resolvedModulePath = ModulePathOf(hits[First(typed)])
           ELSE IF exact # {}
           THEN /\ First(exact) = 1
                /\ out.res.match = <<hits[1]>>
                /\ out.res.resolvedModulePath = ModulePathOf(hits[1])
           ELSE out.res.match = <<>> /\ out.res.resolvedModulePath = <<>>

\* A lookup settled on the second exact hit, the first being of another
\* kind, and resolved its module path.
KindPreferredOverRank ==
    /\ out.op = "lookup"
    /\ Len(out.res.hits) >= 2
    /\ out.res.hits[1].score = 100
    /\ out.res.hits[1].type # out.type
    /\ out.res.match = <<out.res.hits[2]>>
    /\ out.res.resolvedModulePath # <<>>

----------------------------------------------------------------------------
\* Properties of levenshtein (checked under SpecLev).

\* The strings one insertion, deletion or substitution of a character away
\* from s.
OneEditFrom(s) ==
    {RemoveAt(s, i) : i \in 1..Len(s)}
    \cup {[s EXCEPT ![i] = c] : i \in 1..Len(s), c \in LevChars}
    \cup {SubSeq(s, 1, i) \o <<c>> \o SubSeq(s, i + 1, Len(s)) :
              i \in 0..Len(s), c \in LevChars}

\* The least number of edits that lead from a string of S to b, k edits
\* having led to S.
RECURSIVE EditsFrom(_, _, _)
EditsFrom(S, k, b) ==
    IF b \in S THEN k
    ELSE EditsFrom(S \cup UNION {OneEditFrom(s) : s \in S}, k + 1, b)

MinEdits(a, b) == EditsFrom({a}, 0, b)

\* C26: levenshtein(a, b) is the least number of single-character
\* insertions, deletions and substitutions that turn a into b: it is 0
\* exactly when a = b, it is symmetric, it is the other string's length
\* when one string is empty, and it is 1 when a is b with one character
\* deleted.
EditDistanceCorrect ==
    out.op = "levenshtein" =>
        LET a == out.query
            b == out.res.b
        IN /\ out.res.dist = MinEdits(a, b)
           /\ out.res.dist = 0 <=> a = b
           /\ out.res.dist = out.res.back
           /\ a = <<>> => out.res.dist = Len(b)
           /\ b = <<>> => out.res.dist = Len(a)
           /\ (\E i \in 1..Len(b) : a = RemoveAt(b, i)) => out.res.dist = 1

\* The distance of a name to the name with an inner character deleted.
OneCharacterDeleted ==
    /\ out.op = "levenshtein"
    /\ out.res.b = <<"a", "b", "a", "b">>
    /\ out.query = <<"a", "b", "b">>
    /\ out.res.dist = 1

----------------------------------------------------------------------------
\* Properties of the versioned document fetches (checked under SpecVersion).

\* C20: document fetches of one crate under two different versions use
\* different cache keys, and a fetch served from the cache is served an
\* entry that was fetched for the version it asks for.
VersionScopedCacheKeys ==
    /\ \A c1, c2 \in Callers :
          (/\ calls[c1].pc = "awaiting" /\ calls[c2].pc = "awaiting"
           /\ pins.asked[c1] # pins.asked[c2])
              => DomKey(calls[c1].url) # DomKey(calls[c2].url)
    /\ out.op = "fetchDom" => out.res = <<out.type>>

\* The same for the crates that are not of the standard library.
VersionScopedOffStd ==
    /\ \A c1, c2 \in Callers :
          (/\ calls[c1].pc = "awaiting" /\ calls[c2].pc = "awaiting"
           /\ pins.asked[c1] # pins.asked[c2]
           /\ calls[c1].url \notin {docsUrl(c, "all.html", v) :
                                        c \in STD_CRATES, v \in Versions})
              => DomKey(calls[c1].url) # DomKey(calls[c2].url)
    /\ (out.op = "fetchDom" /\ ~isStdCrate(out.query))
          => out.res = <<out.type>>

----------------------------------------------------------------------------
\* Properties of batch_lookup (checked under SpecBatch).

\* The module an item is looked up in when it is looked up alone.
ownModulePath(item) ==
    IF item.modulePath # <<>> THEN item.modulePath
    ELSE autoDiscover(SitePage, item.itemType, item.itemName).resolvedModulePath

\* The section of an item that is looked up alone and whose fetches succeed.
ownSection(item, modulePath) ==
    [status |-> "ok", itemType |-> item.itemType,
     title |-> BatchCrate \o "::" \o modToRustPrefix(modulePath)
                   \o text(item.itemName),
     url |-> pageUrl(item, modulePath),
     doc |-> load(siteBody(pageUrl(item, modulePath))),
     message |-> <<>>]

\* The section of an item whose lookup failed with the reason err.
errorSection(item, err) ==
    [status |-> "error", itemType |-> item.itemType,
     title |-> text(item.itemName), url |-> "", doc |-> "",
     message |-> <<err.name, err.status>>]

\* Every item's task is started at the call, and the response has one
\* section per item, in input order, each about its own item only.
SectionsPerItem ==
    /\ batch.pc # "idle" =>
          /\ Len(batch.tasks) = Len(batch.items)
          /\ \A i \in 1..Len(batch.tasks) : batch.tasks[i].pc # "new"
    /\ batch.pc = "done" <=> out.op = "batch_lookup"
    /\ batch.pc = "done" =>
          /\ out.res.count = Len(batch.items)
          /\ Len(out.res.sections) = Len(batch.items)
          /\ \A i \in 1..Len(batch.items) :
                out.res.sections[i] =
                    IF batch.tasks[i].pc = "rejected"
                    THEN errorSection(batch.items[i],
                                      batch.tasks[i].res[1].err[1])
                    ELSE ownSection(batch.items[i],
                                    ownModulePath(batch.items[i]))

\* A step of one task leaves every other task as it is, a settled task
\* stays settled, and while a task is pending there is no response.
TasksIndependent ==
    batch.pc # "idle" =>
        /\ batch'.items = batch.items
        /\ \A i, j \in 1..Len(batch.tasks) :
              (i # j /\ batch'.tasks[i] # batch.tasks[i])
                  => batch'.tasks[j] = batch.tasks[j]
        /\ \A i \in 1..Len(batch.tasks) :
              settledTask(batch.tasks[i]) => batch'.tasks[i] = batch.tasks[i]

\* C19: a batch_lookup of N items yields exactly N sections in input
\* order; the items are dispatched together, and an item whose lookup fails
\* is reported as an error in its own section while every other item's
\* task runs on unchanged and its section is the one it has when it is
\* looked up alone, whichever items fail and in whichever order the tasks
\* complete.
BatchPartialFailure == []SectionsPerItem /\ [][TasksIndependent]_vars

\* A batch of three items is answered: the second, which the crate does not
\* have, is an error section with its 404, the other two are populated.
SecondOfThreeFailed ==
    /\ batch.pc = "done"
    /\ Len(batch.items) = 3
    /\ batch.items[2].itemName = <<"b", "a">>
    /\ batch.tasks[2].pc = "rejected"
    /\ out.res.sections[2].status = "error"
    /\ out.res.sections[2].message = <<"HttpError", 404>>
    /\ out.res.sections[1].status = "ok"
    /\ out.res.sections[3].status = "ok"
    /\ out.res.sections[1].url # out.res.sections[3].url

----------------------------------------------------------------------------
\* Properties of the cache (checked under Spec).

\* C1: cacheGet returns a value only while the key was set at most
\* STALE_GRACE ago (every stored entry's staleExpiry being its set time plus
\* STALE_GRACE); called later than that, it deletes the entry and returns null.
GetWithinStaleGrace ==
    /\ \A i \in 1..Len(store) :
           store[i].staleExpiry = hist[store[i].key][1].born + STALE_GRACE
    /\ ret.op = "get" =>
           /\ ret.val # Null => ret.phase \in {"fresh", "stale"}
           /\ ret.phase = "gone" => ret.val = Null /\ ~Has(store, ret.key)

\* A read of a key whose stale grace had elapsed.
ExpiredRead == ret.op = "get" /\ ret.phase = "gone" /\ ret.val = Null

\* C2: from its cacheSet until the stale grace has elapsed cacheGet returns
\* the payload that was set (at age 0 in particular); in the part of that
\* window where the ttl has elapsed cacheIsStale is true; once the stale
\* grace has elapsed cacheGet returns null.
FreshnessLifecycle ==
    /\ ret.op = "get" /\ ret.phase \in {"fresh", "stale"} => ret.val = ret.want
    /\ ret.op = "isStale" /\ ret.phase = "stale" => ret.stale
    /\ ret.op = "get" /\ ret.phase = "gone" => ret.val = Null

\* A read that served a payload whose ttl had elapsed.
StaleRead ==
    ret.op = "get" /\ ret.phase = "stale" /\ ret.val = ret.want /\ ret.val # Null

\* C3: the store never holds more than MAX_ENTRIES entries nor two entries
\* for one key, and a run of cacheSet calls on keys not yet stored, from the
\* empty cache, leaves min(number of calls, MAX_ENTRIES) entries.
BoundedCapacity ==
    /\ cacheStats(store).size <= cacheStats(store).maxEntries
    /\ \A i, j \in 1..Len(store) : store[i].key = store[j].key => i = j
    /\ streak >= 0 =>
           Len(store) = IF streak < MAX_ENTRIES THEN streak ELSE MAX_ENTRIES

\* MAX_ENTRIES + 1 distinct keys were inserted into the empty cache.
OneMoreThanCapacity ==
    streak = MAX_ENTRIES + 1 /\ ~hung /\ Len(store) = MAX_ENTRIES

\* C4: every entry's lastAccess is the time of its latest successful
\* cacheGet, or of its cacheSet if never read; a cacheSet that evicts removes
\* exactly the entry with the least such time, the first in iteration order
\* among equals, and never an entry that was read after every other entry's
\* last access.
StrictLruVictim ==
    /\ \A i \in 1..Len(store) :
           store[i].lastAccess = LastTouch(hist, store[i].key)
    /\ ret.op = "set" /\ ret.evicted # <<>> =>
           /\ ret.evicted = <<ret.lru>>
           /\ \A k \in ret.hot : ret.evicted[1] # k

\* A cacheSet evicted an entry while another had just been read.
EvictionSparedHotEntry ==
    ret.op = "set" /\ ret.evicted # <<>> /\ ret.hot # {}

\* The entry stored under key.
EntryOf(s, key) == s[IndexOf(s, key)]

\* C23: every stored entry has staleExpiry >= expiry, and staleExpiry - expiry
\* is one constant, the same for all entries, whatever ttl they were set
\* with.
EntryTimeWindow ==
    \A i \in 1..Len(store) :
        /\ store[i].staleExpiry >= store[i].expiry
        /\ store[i].staleExpiry - store[i].expiry = STALE_GRACE - DEFAULT_TTL

\* C25: an entry that is stored before and after a step is the same entry,
\* field for field, unless the step is a cacheSet of its key.
EntriesImmutable ==
    [][\A k \in AllKeys :
          (/\ Has(store, k) /\ Has(store', k)
           /\ EntryOf(store', k) # EntryOf(store, k))
             => ret'.op = "set" /\ ret'.key = k]_vars

\* C25, amended: once stored, an entry's data, expiry and staleExpiry change
\* only by a cacheSet of its key, which replaces the entry whole; the one
\* field updated in place is lastAccess, by a successful cacheGet of the key.
PayloadAndWindowImmutable ==
    [][/\ \A k \in AllKeys :
            (/\ Has(store, k) /\ Has(store', k)
             /\ EntryOf(store', k) # EntryOf(store, k)
             /\ ~(ret'.op = "set" /\ ret'.key = k))
               => /\ ret'.op = "get" /\ ret'.key = k
                  /\ EntryOf(store', k) =
                         [EntryOf(store, k) EXCEPT !.lastAccess = now]
       /\ (ret'.op = "set" /\ now' = now /\ ~hung')
               => EntryOf(store', ret'.key) =
                      [key |-> ret'.key, data |-> ret'.val,
                       expiry |-> now + hist'[ret'.key][1].ttl,
                       staleExpiry |-> now + STALE_GRACE,
                       lastAccess |-> now]]_vars

\* An entry was read after it was set: its lastAccess is later than its
\* cacheSet, its payload and window are those of the cacheSet.
ReadAfterSet ==
    /\ ret.op = "get" /\ ret.val # Null
    /\ EntryOf(store, ret.key).lastAccess > hist[ret.key][1].born
    /\ EntryOf(store, ret.key).data = hist[ret.key][1].data
    /\ EntryOf(store, ret.key).staleExpiry = hist[ret.key][1].born + STALE_GRACE

\* C27: every cacheSet call finishes: the eviction loop never spins.
CacheSetTerminates == ~hung

\* C28: a cacheSet of a key that is already stored leaves every other
\* stored key in the store, with its entry unchanged.
OverwriteFrame ==
    [][(ret'.op = "set" /\ now' = now /\ Has(store, ret'.key))
          => \A k \in StoredKeys(store) \ {ret'.key} :
                Has(store', k) /\ EntryOf(store', k) = EntryOf(store, k)]_vars

====
